---- MODULE Spec2Model ----
(***************************************************************************)
(* Connection-path search engine ("degrees of separation") and its lookup  *)
(* cache.  Two engines of the repository are modelled side by side, chosen *)
(* by the variable `variant`:                                              *)
(*   "single" : backend/src/services/pathfinder.ts, a single-direction BFS *)
(*              with its own Map caches and no path cache;                 *)
(*   "bidir"  : unnamed/part_012, the three-phase bidirectional BFS that   *)
(*              goes through cacheService (path cache and data caches).    *)
(* One findPath invocation is in flight at a time.  Actions are cut at the *)
(* await points of the code; the handlers of one batch interleave.         *)
(***************************************************************************)
EXTENDS Integers, Sequences, FiniteSets, TLC

VARIABLES
    graph,          \* provider data: [film : actor -> Seq(movie), cast : movie -> Seq(actor)]
    failing,        \* provider fetches that fail: set of <<kind, id>>
    variant,        \* "single" | "bidir"
    workload,       \* [calls |-> how many findPath calls are issued, pairs |-> their arguments]
    ncalls,         \* findPath calls issued so far
    now,            \* Date.now()
    pathCache,      \* pair key -> [result, expiresAt]
    actorCache,     \* actor id -> expiresAt
    filmCache,      \* actor id -> expiresAt
    castCache,      \* movie id -> expiresAt
    pc,             \* position of the findPath invocation
    actor1Id, actor2Id,
    phase,          \* 1..3, the budget profile in use
    iterations,
    pops,           \* queue.shift() calls of the search in progress, both sides together
    queueF, queueB, \* frontiers: Seq([actorId, path])
    visitedF, visitedB, \* actor id -> path
    side,           \* direction being expanded: "F" | "B"
    current,        \* the popped QueueItem
    moviesToCheck,
    batchStart,     \* index in moviesToCheck of the first movie of the batch
    handlers,       \* the movie handlers of the batch
    outcome,        \* what findPath returned or threw
    provCalls,      \* provider invocations of this findPath call, by method
    stages,         \* stages this findPath call entered
    hist,           \* the completed calls, oldest first
    kvImpl,         \* which cache class is exercised: "service" | "inmemory" | "lru" | "map"
    kvStore,        \* its Map: key -> [data, expiresAt]
    kvTasks,        \* callers of wrap / getOrSet: task -> [st, key, ttl, value, startOp, startAt,
                    \* before (the Map at the call), alone (no other caller waiting)]
    kvProduced,     \* producer invocations so far; the n-th one produces the value n
    kvOps,          \* cache operations issued so far
    kvTicks,        \* clock advances so far
    kvLast,         \* the last get or set: its arguments, the Map before it, its result
    kvLog,          \* the settled wrap / getOrSet calls, oldest first
    lru,            \* the LRU CacheService: [entries (the Map, in iteration order), ops, ticks,
                    \* last (the last operation), lastUse, setAt (records of the uses)]
    ui,             \* the ActorSearch component: [inputValue, items, isLoading, timer, inflight,
                    \* issued, inputs, ticks, changedAt, failed]
    req             \* the provider's HTTP request: [st, endpoint, n, answers, result, thrown,
                    \* startedAt]

vars == <<graph, failing, variant, workload, ncalls, now, pathCache, actorCache,
          filmCache, castCache, pc, actor1Id, actor2Id, phase, iterations, pops, queueF,
          queueB, visitedF, visitedB, side, current, moviesToCheck, batchStart,
          handlers, outcome, provCalls, stages, hist, kvImpl, kvStore, kvTasks,
          kvProduced, kvOps, kvTicks, kvLast, kvLog, lru, ui, req>>

-----------------------------------------------------------------------------
(* Bounds of the model *)

NMovies == 2        \* movies of the enumerated graph family
MaxCalls == 2       \* findPath calls of one behaviour of SpecCache
MaxTicks == 3       \* clock ticks of one behaviour of SpecCache
MaxKvOps == 3       \* cache operations of one behaviour of SpecKv
MaxKvTicks == 2     \* clock advances of one behaviour of SpecKv
MaxRuns == 2        \* runs of one behaviour of SpecRuns, each on a fresh instance
\* entries the LRU cache holds at most
LruMaxSize == 2
\* operations on the LRU cache
MaxLruOps == 4
\* clock advances of the LRU cache, each of LruTickMs
MaxLruTicks == 2
LruTickMs == 180000
\* changes of the input field
MaxInputs == 3
\* clock advances while the user types, each of UiTickMs
MaxUiTicks == 4
UiTickMs == 150

(* Program constants *)

DirectLimit == 30           \* actor1Movies.slice(0, 30)
BatchSize == 5              \* const batchSize = 5
SingleMovies == 30          \* actorMovies.slice(0, 30)
SingleCast == 20            \* cast.slice(0, 20)
SingleDepth == 4            \* const maxDepth = 4
SingleIterations == 500     \* const maxIterations = 500
ActorTTL == 86400000        \* actor details: 24 hour TTL
FilmTTL == 3600000          \* actor filmography: 1 hour TTL
CastTTL == 3600000          \* movie cast: 1 hour TTL
PathTTL == 3600000          \* path results: 1 hour TTL
TickMs == 1800000           \* the clock advances in steps of 30 minutes
\* requests made one after the other
MaxRequests == 2
\* 429 answers in a row before the upstream answers something else
MaxRateLimited == 2
DefaultTTL == 3600000       \* constructor(defaultTTL: number = 3600000)
SecondMs == 1000            \* ttlSeconds * 1000
\* setTimeout(resolve, 1000) before a rate-limited request is sent again
RetryDelayMs == 1000
LruTtlMs == 300000          \* ttlMs: number = 5 * 60 * 1000
DebounceMs == 300            \* setTimeout(async () => {...}, 300)

\* tryBidirectionalBFS(30, 20, 4, 250), (100, 100, 6, 1000), (500, 500, 8, 2000)
Phases ==
    << [movies |-> 30,  castMembers |-> 20,  depth |-> 4, iterationsLimit |-> 250],
       [movies |-> 100, castMembers |-> 100, depth |-> 6, iterationsLimit |-> 1000],
       [movies |-> 500, castMembers |-> 500, depth |-> 8, iterationsLimit |-> 2000] >>

\* the single engine has one fixed profile
SingleProfile ==
    [movies |-> SingleMovies, castMembers |-> SingleCast, depth |-> SingleDepth,
     iterationsLimit |-> SingleIterations]

Profile == IF variant = "single" THEN SingleProfile ELSE Phases[phase]

\* a search that gives up after the second profile
LastPhaseSecond == IF variant = "single" THEN 1 ELSE 2

LastPhase == IF variant = "single" THEN 1 ELSE Len(Phases)

-----------------------------------------------------------------------------
(* Sequences and maps *)

Min2(a, b) == IF a < b THEN a ELSE b
Max2(a, b) == IF a < b THEN b ELSE a

Range(s) == {s[i] : i \in 1..Len(s)}

\* Array.prototype.slice(0, n)
Prefix(s, n) == SubSeq(s, 1, Min2(Len(s), n))

\* the least element of a non-empty set of integers
MinOf(S) == CHOOSE x \in S : \A y \in S : x <= y

EmptyMap == [x \in {} |-> 0]

Put(m, k, v) == [x \in DOMAIN m \cup {k} |-> IF x = k THEN v ELSE m[x]]

Drop(m, k) == [x \in DOMAIN m \ {k} |-> m[x]]

-----------------------------------------------------------------------------
(* Path steps *)

ActorStep(a) == [type |-> "actor", id |-> a]
MovieStep(m) == [type |-> "movie", id |-> m]

IsActor(s) == s.type = "actor"

\* path.filter(s => s.type === 'actor').length
ActorCount(path) == Len(SelectSeq(path, IsActor))

\* the actor count, without the - 1
DegreesOffByOne(path) == ActorCount(path)

\* Math.floor(path.filter(s => s.type === 'actor').length) - 1
Degrees(path) == ActorCount(path) - 1

\* every step already carries a fetched Actor (id and name), so each is kept
BuildFinalPath(path) == [i \in 1..Len(path) |-> path[i]]

NoOutcome == [kind |-> "none", path |-> <<>>, degrees |-> 0]
PathOutcome(path, degrees) == [kind |-> "path", path |-> path, degrees |-> degrees]

\* an exhausted search answered with an empty path instead of an error
NotFoundAsEmptyPath == [kind |-> "path", path |-> <<>>, degrees |-> 0 - 1]

\* throw new Error('No path found between the two actors')
NotFound == [kind |-> "notfound", path |-> <<>>, degrees |-> 0]
UpstreamError == [kind |-> "error", path |-> <<>>, degrees |-> 0]

-----------------------------------------------------------------------------
(* The metadata provider *)

Film(a) == IF a \in DOMAIN graph.film THEN graph.film[a] ELSE <<>>
Cast(m) == IF m \in DOMAIN graph.cast THEN graph.cast[m] ELSE <<>>

Fails(kind, id) == <<kind, id>> \in failing

-----------------------------------------------------------------------------
(* The data caches: getCachedActorDetails, getCachedActorFilmography,       *)
(* getCachedMovieCast.  The single engine keeps plain Maps (no expiry), the *)
(* bidir engine goes through cacheService (get-or-compute with a TTL).      *)

Fresh(cache, id) ==
    /\ id \in DOMAIN cache
    /\ (variant = "single" \/ now <= cache[id])

\* does the cached getter resolve (TRUE) or reject (FALSE)
FetchOk(cache, kind, id) == Fresh(cache, id) \/ ~Fails(kind, id)

\* the cache after the cached getter ran for `id`
AfterFetch(cache, kind, id, ttl) ==
    IF Fresh(cache, id) THEN cache
    ELSE IF Fails(kind, id) THEN Drop(cache, id)
    ELSE Put(cache, id, now + ttl)

\* the cache after the cached getter ran for every id of the set `ids`
AfterFetchAll(cache, kind, ids, ttl) ==
    LET stale == {x \in ids : ~Fresh(cache, x)}
        got == {x \in stale : ~Fails(kind, x)}
    IN  [x \in (DOMAIN cache \ stale) \cup got |->
            IF x \in got THEN now + ttl ELSE cache[x]]

\* provider invocations the cached getter makes for `id`
Misses(cache, id) == IF Fresh(cache, id) THEN 0 ELSE 1

NoCalls == [details |-> 0, film |-> 0, cast |-> 0]

-----------------------------------------------------------------------------
(* The path cache of cacheService: pathKey, getPathResult, setPathResult    *)

\* the two ids in ascending order: the key does not depend on the argument order
pathKey(a, b) == <<Min2(a, b), Max2(a, b)>>

\* cacheService.getPathResult: the entry's value if present and not expired
PathHit(a, b) ==
    /\ pathKey(a, b) \in DOMAIN pathCache
    /\ now <= pathCache[pathKey(a, b)].expiresAt

\* an expired entry is removed by the get that finds it
PathCacheAfterGet(a, b) ==
    IF pathKey(a, b) \in DOMAIN pathCache /\ ~PathHit(a, b)
    THEN Drop(pathCache, pathKey(a, b))
    ELSE pathCache

\* cacheService.setPathResult: expiry = now + ttl, overwriting
SetPathResult(cache, a, b, result) ==
    Put(cache, pathKey(a, b), [result |-> result, expiresAt |-> now + PathTTL])

\* a findPath that takes whatever entry the path cache holds, expired or not
CheckPathCacheStale(a, b) == variant = "bidir" /\ pathKey(a, b) \in DOMAIN pathCache

\* a findPath that never finds its pair in the path cache
CheckPathCacheNever(a, b) == FALSE

\* the single engine has no path cache
CheckPathCache(a, b) == variant = "bidir" /\ PathHit(a, b)

\* a findPath that stores the path without its degrees
StoreResultNoDegrees(cache, a, b, result) ==
    IF variant = "bidir"
    THEN SetPathResult(cache, a, b, [path |-> result.path, degrees |-> 0])
    ELSE cache

\* a findPath that returns its result without storing it
StoreResultNever(cache, a, b, result) == cache

\* the path cache after a successful findPath stored its result
StoreResult(cache, a, b, result) ==
    IF variant = "bidir" THEN SetPathResult(cache, a, b, result) ELSE cache

-----------------------------------------------------------------------------
(* Provider data the model is run on *)

SmallActors == {1, 2, 3}

\* billing orders of a small movie: two distinct actors
SmallCasts == {p \in SmallActors \X SmallActors : p[1] # p[2]}

\* the filmography of `a` consistent with the casts: its movies in the order `order`
FilmFromCasts(cast, order, a) ==
    SelectSeq(order, LAMBDA m : a \in Range(cast[m]))

MkGraph(cast, order, actors) ==
    [film |-> [a \in actors |-> FilmFromCasts(cast, order, a)], cast |-> cast]

Ident(n) == [i \in 1..n |-> i]

SmallGraphs ==
    {MkGraph(c, Ident(NMovies), SmallActors) : c \in [1..NMovies -> SmallCasts]}

\* 1 -M1- 3 -M2- 4 -M3- 2
Chain3 ==
    MkGraph(<< <<1, 3>>, <<3, 4>>, <<4, 2>> >>, Ident(3), 1..4)

\* 1 -M1- 3 -M2- 4 -M3- 5 -M4- 2
Chain4 ==
    MkGraph(<< <<1, 3>>, <<3, 4>>, <<4, 5>>, <<5, 2>> >>, Ident(4), 1..5)

\* actor 3 is in both movies of actor 1, which are handled in one batch
SharedCoStar ==
    MkGraph(<< <<1, 3>>, <<3, 1, 4>>, <<4, 2>> >>, Ident(3), 1..4)

\* 1 -M1- {3, 4};  3 -M2- 5 -M3- 6;  4 -M4- 6;  6 -M5- 2
\* shortest 1-4-6-2 (3 hops); 6 lists M3 before M4
Detour ==
    MkGraph(<< <<1, 3, 4>>, <<3, 5>>, <<5, 6>>, <<4, 6>>, <<6, 2>> >>, Ident(5), 1..6)

\* actor 1 has thirty solo movies ahead of movie 31, which it shares with actor 2
FarMovie ==
    MkGraph([m \in 1..31 |-> IF m = 31 THEN <<1, 2>> ELSE <<1>>], Ident(31), 1..2)

\* 1 -M32- 3 -M33- 2 with M32 last in actor 1's filmography, behind
\* 1 -M1- 4 -M34- 5 -M35- 2 and twenty-nine solo movies
FarCoStar ==
    MkGraph([m \in 1..35 |->
                CASE m = 1 -> <<1, 4>>
                  [] m = 32 -> <<1, 3>>
                  [] m = 33 -> <<3, 2>>
                  [] m = 34 -> <<4, 5>>
                  [] m = 35 -> <<5, 2>>
                  [] OTHER -> <<1>>],
            <<1>> \o [i \in 1..29 |-> i + 1] \o <<34, 35, 32, 33>>, 1..5)

\* 1 -M1- 3, and actor 2 alone in M2
Apart ==
    MkGraph(<< <<1, 3>>, <<2>> >>, Ident(2), 1..3)

\* 1 -M1- 3 and 2 -M2- 4: both actors have co-stars, no chain joins them
Islands ==
    MkGraph(<< <<1, 3>>, <<2, 4>> >>, Ident(2), 1..4)

\* a movie whose cast list is empty
NoCast ==
    MkGraph(<< <<>>, <<1, 2>> >>, Ident(2), 1..2)

\* a chain of seven hops, 1 -M1- 3 -M2- 4 -M3- 5 -M4- 6 -M5- 7 -M6- 8 -M7- 2:
\* out of reach of the depth of the first profile, within that of the second
Chain7 ==
    MkGraph(<< <<1, 3>>, <<3, 4>>, <<4, 5>>, <<5, 6>>, <<6, 7>>, <<7, 8>>, <<8, 2>> >>,
            Ident(7), 1..8)

\* the cast of movie m (1..7) of a tree below `root`: movie 1 has the root and
\* its nineteen co-stars base+1..base+19; movie m > 1 has the co-star base+m-1
\* and eighteen actors of its own
CrowdCast(root, base, m) ==
    IF m = 1 THEN <<root>> \o [j \in 1..19 |-> base + j]
    ELSE <<base + m - 1>> \o [j \in 1..18 |-> base + 19 + 18 * (m - 2) + j]

\* two trees of 128 actors each, one below actor 1 and one below actor 2, with
\* no movie in common
Crowds ==
    MkGraph([m \in 1..14 |-> IF m <= 7 THEN CrowdCast(1, 2, m)
                                       ELSE CrowdCast(2, 129, m - 7)],
            Ident(14), 1..256)

\* 1 -M1- {3, 4};  3 -M2- 2;  4 -M3- 2;  3 -M4- 2: several movies of one batch
\* lead to the other side
Fork ==
    MkGraph(<< <<1, 3, 4>>, <<3, 2>>, <<4, 2>>, <<3, 2>> >>, Ident(4), 1..4)

\* 1 -M1- 3 and 1 -M2- 3 in one batch, then 3 -M3- 2
TwoRoutes ==
    MkGraph(<< <<1, 3>>, <<1, 3>>, <<3, 2>> >>, Ident(3), 1..3)

\* 1 -M1- 3 -M3- 5 and 1 -M2- 4 -M4- 5, then 5 -M5- 2: two routes of equal
\* length through different co-stars of actor 1
Race ==
    MkGraph(<< <<1, 3>>, <<1, 4>>, <<3, 5>>, <<4, 5>>, <<5, 2>> >>, Ident(5), 1..5)

\* a chain of eleven hops from actor 1 (over actors 3..12) to actor 2: within
\* reach of the third profile only
Chain11 ==
    MkGraph([m \in 1..11 |-> <<(IF m = 1 THEN 1 ELSE m + 1),
                               (IF m = 11 THEN 2 ELSE m + 2)>>],
            Ident(11), 1..12)

ScenarioGraphs ==
    {Chain3, Chain4, Chain7, Chain11, Fork, SharedCoStar, Detour, FarMovie, FarCoStar, Apart, Islands,
     NoCast}

\* at most one provider item fails, always
Failures ==
    {{}} \cup {{<<"cast", m>>} : m \in 1..NMovies}
         \cup {{<<"film", a>>} : a \in SmallActors}
         \cup {{<<"actor", a>>} : a \in SmallActors}

-----------------------------------------------------------------------------
(* Initial states *)

NoItem == [actorId |-> 0, path |-> <<>>]

Idle ==
    /\ pc = "idle"
    /\ actor1Id = 0 /\ actor2Id = 0
    /\ phase = 1 /\ iterations = 0 /\ pops = 0
    /\ queueF = <<>> /\ queueB = <<>>
    /\ visitedF = EmptyMap /\ visitedB = EmptyMap
    /\ side = "F" /\ current = NoItem
    /\ moviesToCheck = <<>> /\ batchStart = 1 /\ handlers = <<>>
    /\ outcome = NoOutcome
    /\ provCalls = NoCalls
    /\ stages = {}

ColdCaches ==
    /\ now = 0
    /\ pathCache = EmptyMap
    /\ actorCache = EmptyMap /\ filmCache = EmptyMap /\ castCache = EmptyMap
    /\ ncalls = 0
    /\ hist = <<>>

KvNull == 0

NoKvOp == [op |-> "none", key |-> "", ttl |-> 0, value |-> KvNull, before |-> EmptyMap,
           prev |-> EmptyMap, at |-> 0, result |-> KvNull]

KvIdleTask == [st |-> "idle", key |-> "", ttl |-> 0, value |-> KvNull, startOp |-> 0,
               startAt |-> 0, before |-> EmptyMap, alone |-> TRUE]

KvTaskIds == {1, 2}

\* a cache object just constructed
KvFresh ==
    /\ kvStore = EmptyMap
    /\ kvTasks = [t \in KvTaskIds |-> KvIdleTask]
    /\ kvProduced = 0 /\ kvOps = 0 /\ kvTicks = 0
    /\ kvLast = NoKvOp
    /\ kvLog = <<>>

\* the stand-alone cache object is not exercised
KvUnused == kvImpl = "service" /\ KvFresh

\* no operation on the LRU cache: the Map of a new CacheService is empty
NoLru == [entries |-> <<>>, ops |-> 0, ticks |-> 0,
          last |-> [op |-> "none", key |-> 0, result |-> 0],
          lastUse |-> <<>>, setAt |-> <<>>]

\* no timer is pending
NoTimer == [armed |-> FALSE, query |-> "", setAt |-> 0]

\* the ActorSearch component as it is mounted: useState(''), useState([]),
\* useState(false), useRef(null)
NoUi == [inputValue |-> "", items |-> <<>>, isLoading |-> FALSE, timer |-> NoTimer,
         inflight |-> {}, issued |-> 0, inputs |-> 0, ticks |-> 0, changedAt |-> 0,
         failed |-> FALSE]

\* no request has been made
NoRequest == [st |-> "idle", endpoint |-> "", n |-> 0, answers |-> <<>>,
              result |-> "none", thrown |-> 0, startedAt |-> 0]

\* one findPath call on cold caches, over the whole graph family
Init ==
    /\ graph \in SmallGraphs \cup ScenarioGraphs
    /\ failing \in Failures
    /\ variant \in {"single", "bidir"}
    /\ workload = [calls |-> 1, pairs |-> {<<1, 2>>, <<1, 1>>}]
    /\ ColdCaches
    /\ Idle
    /\ KvUnused
    /\ req = NoRequest
    /\ lru = NoLru
    /\ ui = NoUi

\* 1 -M1- 2
CoStars ==
    MkGraph(<< <<1, 2>> >>, Ident(1), 1..2)

CacheGraphs == {CoStars, Chain3, Apart}

CacheFailures == {{}, {<<"cast", 1>>}, {<<"film", 2>>}}

\* a series of findPath calls on one service instance, in both argument orders
InitCache ==
    /\ graph \in CacheGraphs
    /\ failing \in CacheFailures
    /\ variant \in {"single", "bidir"}
    /\ workload = [calls |-> MaxCalls, pairs |-> {<<1, 2>>, <<2, 1>>, <<1, 1>>, <<1, 3>>}]
    /\ ColdCaches
    /\ Idle
    /\ KvUnused
    /\ req = NoRequest
    /\ lru = NoLru
    /\ ui = NoUi

-----------------------------------------------------------------------------
(* Helpers of findPath *)

Reverse(s) == [i \in 1..Len(s) |-> s[Len(s) + 1 - i]]

\* the actor a side starts from: isForward ? startActor : endActor
Origin(s) == IF s = "F" THEN actor1Id ELSE actor2Id

\* the actor the other side starts from: isForward ? endActor : startActor
OtherOrigin(s) == IF s = "F" THEN actor2Id ELSE actor1Id

Queue(s) == IF s = "F" THEN queueF ELSE queueB
Visited(s) == IF s = "F" THEN visitedF ELSE visitedB
OtherVisited(s) == IF s = "F" THEN visitedB ELSE visitedF

\* [...current.path, movie], with the side's origin put in front of an empty path
PathThrough(item, s, movie) ==
    (IF Len(item.path) = 0 THEN <<ActorStep(Origin(s))>> ELSE <<>>)
        \o item.path \o <<MovieStep(movie)>>

\* newPath of the enqueue: the path through the movie, then the next actor
ExtendPath(item, s, movie, c) == PathThrough(item, s, movie) \o <<ActorStep(c)>>

\* the reversed other path with no step left out
PathFromMeetingKeepAll(pathFromOther, c, endActorData) ==
    Reverse(pathFromOther)
        \o (IF Len(pathFromOther) > 0 THEN <<ActorStep(endActorData)>> ELSE <<>>)

\* the reversed other path with the meeting actor left in
PathFromMeetingKeepMeeting(pathFromOther, c, endActorData) ==
    SelectSeq(Reverse(pathFromOther),
              LAMBDA st : st.type = "movie" \/ st.id # endActorData)
        \o (IF Len(pathFromOther) > 0 THEN <<ActorStep(endActorData)>> ELSE <<>>)

\* the other side's path reversed, without the meeting actor and the destination
\* actor, which is added at the end when the other path is not empty
PathFromMeeting(pathFromOther, c, endActorData) ==
    SelectSeq(Reverse(pathFromOther),
              LAMBDA st : st.type = "movie" \/ (st.id # c /\ st.id # endActorData))
        \o (IF Len(pathFromOther) > 0 THEN <<ActorStep(endActorData)>> ELSE <<>>)

\* the other path appended as it is stored, origin first
CombinePathsUnreversed(item, s, movie, c, pathFromOther) ==
    ExtendPath(item, s, movie, c)
        \o SelectSeq(pathFromOther,
                     LAMBDA st : st.type = "movie" \/ (st.id # c /\ st.id # OtherOrigin(s)))
        \o (IF Len(pathFromOther) > 0 THEN <<ActorStep(OtherOrigin(s))>> ELSE <<>>)

\* combinedPath of the meeting point: pathToMeeting, then pathFromMeeting
CombinePaths(item, s, movie, c, pathFromOther) ==
    ExtendPath(item, s, movie, c) \o PathFromMeeting(pathFromOther, c, OtherOrigin(s))

\* the single engine's path when the target is in the movie's cast
TargetPath(item, movie) == PathThrough(item, "F", movie) \o <<ActorStep(actor2Id)>>

\* the direct-connection shortcut: the first 30 movies of actor1's filmography
DirectMovies(a) == Prefix(Film(a), DirectLimit)

\* indices of the checked movies whose cast is fetched and contains the target
DirectMatches(movies, target) ==
    {i \in 1..Len(movies) :
        /\ FetchOk(castCache, "cast", movies[i])
        /\ target \in Range(Cast(movies[i]))}

\* the last match instead of the first
FoundMovieLast(movies, target) ==
    movies[CHOOSE i \in DirectMatches(movies, target) :
              \A j \in DirectMatches(movies, target) : j <= i]

\* results.find(m => m !== null)
FoundMovie(movies, target) == movies[MinOf(DirectMatches(movies, target))]

DirectResult(a, m, b) ==
    [path |-> <<ActorStep(a), MovieStep(m), ActorStep(b)>>, degrees |-> 1]

\* the same-actor case answered like a direct connection
TrivialResultAsDirect(a) ==
    [path |-> <<ActorStep(a), MovieStep(a), ActorStep(a)>>, degrees |-> 1]

TrivialResult(a) == [path |-> <<ActorStep(a)>>, degrees |-> 0]

\* provider invocations for the casts of `movies`
CastMisses(movies) == Cardinality({i \in 1..Len(movies) : ~Fresh(castCache, movies[i])})

\* handlers for all the movies from index `start` on, started together
NewHandlersUnbatched(movies, start) ==
    [i \in 1..(Len(movies) - start + 1) |->
        [movie |-> movies[start + i - 1], st |-> "cast", k |-> 0, cast |-> <<>>,
         found |-> FALSE, path |-> <<>>, degrees |-> 0, newActors |-> <<>>]]

\* the handlers of the batch starting at index `start`, each awaiting its cast
NewHandlers(movies, start) ==
    [i \in 1..Min2(BatchSize, Len(movies) - start + 1) |->
        [movie |-> movies[start + i - 1], st |-> "cast", k |-> 0, cast |-> <<>>,
         found |-> FALSE, path |-> <<>>, degrees |-> 0, newActors |-> <<>>]]

\* an actor visited by the other side is passed over like one visited on this side
ScanOwnSideOnly(cast, from, vis, oth, cur) ==
    LET cand == {j \in from..Len(cast) :
                    /\ cast[j] # cur
                    /\ cast[j] \notin DOMAIN oth
                    /\ cast[j] \notin DOMAIN vis}
    IN  IF cand = {} THEN 0 ELSE MinOf(cand)

\* bidir: the next cast member from index `from` on that makes the handler await
\* (a meeting point, or an actor not visited on this side); 0 if there is none
Scan(cast, from, vis, oth, cur) ==
    LET cand == {j \in from..Len(cast) :
                    /\ cast[j] # cur
                    /\ (cast[j] \in DOMAIN oth \/ cast[j] \notin DOMAIN vis)}
    IN  IF cand = {} THEN 0 ELSE MinOf(cand)

\* the handler suspended at cast member j (or finished when j = 0)
Suspended(h, cast, j, oth) ==
    [h EXCEPT !.cast = cast, !.k = j,
              !.st = IF j = 0 THEN "done"
                     ELSE IF cast[j] \in DOMAIN oth THEN "meet" ELSE "enq"]

\* a catch that reports the failed movie as a found path
HandlerFailedAsFound(h) == [h EXCEPT !.st = "done", !.found = TRUE]

\* catch (error): return { found: false }
HandlerFailed(h) == [h EXCEPT !.st = "done", !.found = FALSE]

\* single: the cast members added to visited by one handler, in cast order
RECURSIVE NewActorsFrom(_, _, _, _)
NewActorsFrom(cast, j, seen, cur) ==
    IF j > Len(cast) THEN <<>>
    ELSE IF cast[j] \notin seen /\ cast[j] # cur
         THEN <<cast[j]>> \o NewActorsFrom(cast, j + 1, seen \cup {cast[j]}, cur)
         ELSE NewActorsFrom(cast, j + 1, seen, cur)

\* visited.add for each id of the sequence
MarkAll(vis, ids) == [x \in DOMAIN vis \cup Range(ids) |-> IF x \in DOMAIN vis THEN vis[x] ELSE <<>>]

\* single: the queue items of the batch results, in batch order
RECURSIVE NewItems(_, _, _)
NewItems(hs, i, item) ==
    IF i > Len(hs) THEN <<>>
    ELSE [j \in 1..Len(hs[i].newActors) |->
             [actorId |-> hs[i].newActors[j],
              path |-> ExtendPath(item, "F", hs[i].movie, hs[i].newActors[j])]]
         \o NewItems(hs, i + 1, item)

\* where the search goes when an expansion returned null
AfterExpansion(s, qB) ==
    IF variant = "bidir" /\ s = "F" /\ Len(qB) > 0
    THEN [pc |-> "expand", side |-> "B"]
    ELSE [pc |-> "loop", side |-> "F"]

\* the loop condition of the BFS
LoopGoesOn ==
    /\ iterations < Profile.iterationsLimit
    /\ IF variant = "single" THEN Len(queueF) > 0
       ELSE Len(queueF) > 0 \/ Len(queueB) > 0

-----------------------------------------------------------------------------
(* findPath *)

kvVars == <<kvImpl, kvStore, kvTasks, kvProduced, kvOps, kvTicks, kvLast, kvLog>>

\* what no step of findPath changes: the provider, the engine, the workload and
\* the stand-alone cache object
env == <<graph, failing, variant, workload, kvVars, lru, ui, req>>
searchVars == <<phase, iterations, pops, queueF, queueB, visitedF, visitedB, side,
                current, moviesToCheck, batchStart, handlers>>

\* findPath returns `result`, storing it in the path cache first (bidir)
ReturnResult(result) ==
    /\ outcome' = PathOutcome(result.path, result.degrees)
    /\ pathCache' = StoreResult(pathCache, actor1Id, actor2Id, result)
    /\ pc' = "done"

\* a findPath that caches an empty result when it throws
ThrowAndStore(what) ==
    /\ outcome' = what
    /\ pc' = "done"
    /\ pathCache' = SetPathResult(pathCache, actor1Id, actor2Id,
                                  [path |-> <<>>, degrees |-> 0])

\* findPath throws
Throw(what) ==
    /\ outcome' = what
    /\ pc' = "done"
    /\ UNCHANGED pathCache

\* a fresh search: the queues and visited maps of tryBidirectionalBFS / the BFS
BeginSearch(p) ==
    /\ phase' = p
    /\ iterations' = 0 /\ pops' = 0
    /\ queueF' = <<[actorId |-> actor1Id, path |-> <<>>]>>
    /\ visitedF' = Put(EmptyMap, actor1Id, <<>>)
    /\ queueB' = IF variant = "bidir" THEN <<[actorId |-> actor2Id, path |-> <<>>]>> ELSE <<>>
    /\ visitedB' = IF variant = "bidir" THEN Put(EmptyMap, actor2Id, <<>>) ELSE EmptyMap
    /\ side' = "F" /\ current' = NoItem
    /\ moviesToCheck' = <<>> /\ batchStart' = 1 /\ handlers' = <<>>
    /\ pc' = "loop"

\* the path-cache check at the start of findPath
FindPath(a, b) ==
    /\ pc = "idle"
    /\ ncalls < workload.calls
    /\ <<a, b>> \in workload.pairs
    /\ ncalls' = ncalls + 1
    /\ actor1Id' = a /\ actor2Id' = b
    /\ provCalls' = NoCalls
    /\ IF CheckPathCache(a, b)
       THEN /\ outcome' = PathOutcome(pathCache[pathKey(a, b)].result.path,
                                      pathCache[pathKey(a, b)].result.degrees)
            /\ stages' = {"cached"}
            /\ pc' = "done"
            /\ UNCHANGED pathCache
       ELSE /\ outcome' = NoOutcome
            /\ stages' = {}
            /\ pc' = "endpoints"
            /\ pathCache' = IF variant = "bidir" THEN PathCacheAfterGet(a, b) ELSE pathCache
    /\ UNCHANGED <<env, now, actorCache, filmCache, castCache, searchVars, hist>>

\* the same-actor case, or the details of the two endpoints
ResolveEndpoints ==
    /\ pc = "endpoints"
    /\ LET ok1 == FetchOk(actorCache, "actor", actor1Id)
           c1 == AfterFetch(actorCache, "actor", actor1Id, ActorTTL)
           n1 == Misses(actorCache, actor1Id)
           ok2 == FetchOk(c1, "actor", actor2Id)
           c2 == AfterFetch(c1, "actor", actor2Id, ActorTTL)
           n2 == Misses(c1, actor2Id)
       IN  IF actor1Id = actor2Id
           THEN /\ actorCache' = c1
                /\ provCalls' = [provCalls EXCEPT !.details = @ + n1]
                /\ stages' = stages \cup {"trivial"}
                /\ IF ok1 THEN ReturnResult(TrivialResult(actor1Id))
                          ELSE Throw(UpstreamError)
           ELSE IF ~ok1
           THEN /\ actorCache' = c1
                /\ provCalls' = [provCalls EXCEPT !.details = @ + n1]
                /\ Throw(UpstreamError)
                /\ UNCHANGED stages
           ELSE /\ actorCache' = c2
                /\ provCalls' = [provCalls EXCEPT !.details = @ + n1 + n2]
                /\ UNCHANGED stages
                /\ IF ok2 THEN pc' = "direct" /\ UNCHANGED <<outcome, pathCache>>
                          ELSE Throw(UpstreamError)
    /\ UNCHANGED <<env, ncalls, now, filmCache, castCache, actor1Id, actor2Id,
                   searchVars, hist>>

\* the direct-connection shortcut; without a match the first search starts
DirectConnection ==
    /\ pc = "direct"
    /\ stages' = stages \cup {"direct"}
    /\ filmCache' = AfterFetch(filmCache, "film", actor1Id, FilmTTL)
    /\ IF ~FetchOk(filmCache, "film", actor1Id)
       THEN /\ provCalls' = [provCalls EXCEPT !.film = @ + Misses(filmCache, actor1Id)]
            /\ BeginSearch(1)
            /\ UNCHANGED <<castCache, outcome, pathCache>>
       ELSE LET movies == DirectMovies(actor1Id)
            IN  /\ castCache' = AfterFetchAll(castCache, "cast", Range(movies), CastTTL)
                /\ provCalls' = [provCalls EXCEPT
                                    !.film = @ + Misses(filmCache, actor1Id),
                                    !.cast = @ + CastMisses(movies)]
                /\ IF DirectMatches(movies, actor2Id) # {}
                   THEN /\ ReturnResult(DirectResult(actor1Id,
                                           FoundMovie(movies, actor2Id), actor2Id))
                        /\ UNCHANGED searchVars
                   ELSE /\ BeginSearch(1)
                        /\ UNCHANGED <<outcome, pathCache>>
    /\ UNCHANGED <<env, ncalls, now, actorCache, actor1Id, actor2Id, hist>>

\* the head of the BFS loop: one more iteration, the next phase, or NotFound
Iterate ==
    /\ pc = "loop"
    /\ stages' = stages \cup {"bfs"}
    /\ IF LoopGoesOn
       THEN /\ iterations' = iterations + 1
            /\ side' = IF Len(queueF) > 0 THEN "F" ELSE "B"
            /\ pc' = "expand"
            /\ UNCHANGED <<phase, pops, queueF, queueB, visitedF, visitedB, current,
                           moviesToCheck, batchStart, handlers, outcome, pathCache>>
       ELSE IF phase < LastPhase
       THEN /\ BeginSearch(phase + 1)
            /\ UNCHANGED <<outcome, pathCache>>
       ELSE /\ Throw(NotFound)
            /\ UNCHANGED searchVars
    /\ UNCHANGED <<env, ncalls, now, actorCache, filmCache, castCache, actor1Id,
                   actor2Id, provCalls, hist>>

\* expandDirection up to its first batch: pop, depth check, filmography
ExpandDirection ==
    /\ pc = "expand"
    /\ LET item == Head(Queue(side))
           qF == IF side = "F" THEN Tail(queueF) ELSE queueF
           qB == IF side = "B" THEN Tail(queueB) ELSE queueB
           movies == Prefix(Film(item.actorId), Profile.movies)
           next == AfterExpansion(side, qB)
       IN  /\ queueF' = qF /\ queueB' = qB
           /\ pops' = pops + 1
           /\ current' = item
           /\ IF ActorCount(item.path) >= Profile.depth
              THEN /\ pc' = next.pc /\ side' = next.side
                   /\ UNCHANGED <<filmCache, provCalls, moviesToCheck, batchStart,
                                  handlers, outcome, pathCache>>
              ELSE /\ filmCache' = AfterFetch(filmCache, "film", item.actorId, FilmTTL)
                   /\ provCalls' = [provCalls EXCEPT
                                       !.film = @ + Misses(filmCache, item.actorId)]
                   /\ IF ~FetchOk(filmCache, "film", item.actorId)
                      THEN /\ Throw(UpstreamError)
                           /\ UNCHANGED <<side, moviesToCheck, batchStart, handlers>>
                      ELSE IF Len(movies) = 0
                      THEN /\ pc' = next.pc /\ side' = next.side
                           /\ UNCHANGED <<moviesToCheck, batchStart, handlers,
                                          outcome, pathCache>>
                      ELSE /\ moviesToCheck' = movies
                           /\ batchStart' = 1
                           /\ handlers' = NewHandlers(movies, 1)
                           /\ pc' = "batch"
                           /\ UNCHANGED <<side, outcome, pathCache>>
    /\ UNCHANGED <<env, ncalls, now, actorCache, castCache, actor1Id, actor2Id,
                   phase, iterations, visitedF, visitedB, stages, hist>>

\* bidir: one movie handler runs from one await to the next
BidirHandlerStep(i) ==
    LET h == handlers[i]
        vis == Visited(side)
        oth == OtherVisited(side)
        cur == current.actorId
    IN  CASE h.st = "cast" ->
              \* await getCachedMovieCast, then the cast loop up to its first await
              /\ castCache' = AfterFetch(castCache, "cast", h.movie, CastTTL)
              /\ provCalls' = [provCalls EXCEPT !.cast = @ + Misses(castCache, h.movie)]
              /\ handlers' = [handlers EXCEPT ![i] =
                    IF ~FetchOk(castCache, "cast", h.movie) THEN HandlerFailed(h)
                    ELSE LET topCast == Prefix(Cast(h.movie), Profile.castMembers)
                         IN  Suspended(h, topCast, Scan(topCast, 1, vis, oth, cur), oth)]
              /\ UNCHANGED <<actorCache, queueF, queueB, visitedF, visitedB>>
          [] h.st = "meet" ->
              \* await getCachedActorDetails of the meeting actor, then the combined path
              LET c == h.cast[h.k]
                  combined == CombinePaths(current, side, h.movie, c, oth[c])
              IN  /\ actorCache' = AfterFetch(actorCache, "actor", c, ActorTTL)
                  /\ provCalls' = [provCalls EXCEPT !.details = @ + Misses(actorCache, c)]
                  /\ handlers' = [handlers EXCEPT ![i] =
                        IF ~FetchOk(actorCache, "actor", c) THEN HandlerFailed(h)
                        ELSE [h EXCEPT !.st = "done", !.found = TRUE,
                                       !.path = combined, !.degrees = Degrees(combined)]]
                  /\ UNCHANGED <<castCache, queueF, queueB, visitedF, visitedB>>
          [] h.st = "enq" ->
              \* await getCachedActorDetails of the next actor, then visited.set and
              \* queue.push, then the cast loop up to its next await
              LET c == h.cast[h.k]
                  ok == FetchOk(actorCache, "actor", c)
                  newPath == ExtendPath(current, side, h.movie, c)
                  vis2 == IF ok THEN Put(vis, c, newPath) ELSE vis
                  q2 == IF ok THEN Append(Queue(side), [actorId |-> c, path |-> newPath])
                              ELSE Queue(side)
              IN  /\ actorCache' = AfterFetch(actorCache, "actor", c, ActorTTL)
                  /\ provCalls' = [provCalls EXCEPT !.details = @ + Misses(actorCache, c)]
                  /\ handlers' = [handlers EXCEPT ![i] =
                        IF ~ok THEN HandlerFailed(h)
                        ELSE Suspended(h, h.cast, Scan(h.cast, h.k + 1, vis2, oth, cur), oth)]
                  /\ visitedF' = IF side = "F" THEN vis2 ELSE visitedF
                  /\ visitedB' = IF side = "B" THEN vis2 ELSE visitedB
                  /\ queueF' = IF side = "F" THEN q2 ELSE queueF
                  /\ queueB' = IF side = "B" THEN q2 ELSE queueB
                  /\ UNCHANGED castCache

\* single: the movie handler after its cast fetch
SingleHandlerStep(i) ==
    LET h == handlers[i]
        cast == Cast(h.movie)
        found == TargetPath(current, h.movie)
        newActors == NewActorsFrom(Prefix(cast, Profile.castMembers), 1,
                                   DOMAIN visitedF, current.actorId)
    IN  /\ castCache' = AfterFetch(castCache, "cast", h.movie, CastTTL)
        /\ provCalls' = [provCalls EXCEPT !.cast = @ + Misses(castCache, h.movie)]
        /\ IF ~FetchOk(castCache, "cast", h.movie)
           THEN /\ handlers' = [handlers EXCEPT ![i] = HandlerFailed(h)]
                /\ UNCHANGED visitedF
           ELSE IF actor2Id \in Range(cast)
           THEN /\ handlers' = [handlers EXCEPT ![i] =
                      [h EXCEPT !.st = "done", !.found = TRUE, !.path = found,
                                !.degrees = Degrees(found)]]
                /\ UNCHANGED visitedF
           ELSE /\ handlers' = [handlers EXCEPT ![i] =
                      [h EXCEPT !.st = "done", !.newActors = newActors]]
                /\ visitedF' = MarkAll(visitedF, newActors)
        /\ UNCHANGED <<actorCache, queueF, queueB, visitedB>>

\* one handler of the batch resumes; the handlers of a batch interleave
HandlerStep(i) ==
    /\ pc = "batch"
    /\ i \in DOMAIN handlers
    /\ handlers[i].st # "done"
    /\ IF variant = "single" THEN SingleHandlerStep(i) ELSE BidirHandlerStep(i)
    /\ UNCHANGED <<env, ncalls, now, pathCache, filmCache, pc, actor1Id, actor2Id,
                   phase, iterations, pops, side, current, moviesToCheck, batchStart,
                   outcome, stages, hist>>

\* batchResults.find(r => r.found === true ...): indices of the handlers with a path
FoundHandlers == {i \in DOMAIN handlers : handlers[i].found}

\* the last result with a path instead of the first
FoundPathLast ==
    handlers[CHOOSE i \in FoundHandlers : \A j \in FoundHandlers : j <= i]

\* foundPath: the first result of the batch, in batch order, that has a path
FoundPath == handlers[MinOf(FoundHandlers)]

\* the next batch of the expansion, or the end of the expansion
NextBatch(qB) ==
    IF batchStart + BatchSize <= Len(moviesToCheck)
    THEN /\ batchStart' = batchStart + BatchSize
         /\ handlers' = NewHandlers(moviesToCheck, batchStart + BatchSize)
         /\ UNCHANGED <<pc, side>>
    ELSE /\ pc' = AfterExpansion(side, qB).pc
         /\ side' = AfterExpansion(side, qB).side
         /\ UNCHANGED <<batchStart, handlers>>

\* await Promise.all(batchPromises) resolved: the found path is returned, or the
\* new actors are enqueued (single) and the next batch starts
BatchDone ==
    /\ pc = "batch"
    /\ \A i \in DOMAIN handlers : handlers[i].st = "done"
    /\ IF FoundHandlers # {}
       THEN LET h == FoundPath
            IN  /\ ReturnResult([path |-> BuildFinalPath(h.path), degrees |-> h.degrees])
                /\ UNCHANGED <<actorCache, provCalls, queueF, side, batchStart, handlers>>
       ELSE IF variant = "bidir"
       THEN /\ NextBatch(queueB)
            /\ UNCHANGED <<actorCache, provCalls, queueF, outcome, pathCache>>
       ELSE LET items == NewItems(handlers, 1, current)
                bad == {j \in 1..Len(items) :
                           ~FetchOk(actorCache, "actor", items[j].actorId)}
                fetched == IF bad = {} THEN items ELSE SubSeq(items, 1, MinOf(bad))
                ids == {fetched[j].actorId : j \in 1..Len(fetched)}
            IN  /\ actorCache' = AfterFetchAll(actorCache, "actor", ids, ActorTTL)
                /\ provCalls' = [provCalls EXCEPT !.details =
                                    @ + Cardinality({x \in ids : ~Fresh(actorCache, x)})]
                /\ IF bad # {}
                   THEN /\ Throw(UpstreamError)
                        /\ UNCHANGED <<queueF, side, batchStart, handlers>>
                   ELSE /\ queueF' = queueF \o items
                        /\ NextBatch(queueB)
                        /\ UNCHANGED <<outcome, pathCache>>
    /\ UNCHANGED <<env, ncalls, now, filmCache, castCache, actor1Id, actor2Id, phase,
                   iterations, pops, queueB, visitedF, visitedB, current, moviesToCheck,
                   stages, hist>>

\* the caller has the outcome; the invocation is over
Return ==
    /\ pc = "done"
    /\ hist' = Append(hist, [a |-> actor1Id, b |-> actor2Id, outcome |-> outcome,
                             stages |-> stages, at |-> now])
    /\ pc' = "idle"
    /\ actor1Id' = 0 /\ actor2Id' = 0
    /\ phase' = 1 /\ iterations' = 0 /\ pops' = 0
    /\ queueF' = <<>> /\ queueB' = <<>>
    /\ visitedF' = EmptyMap /\ visitedB' = EmptyMap
    /\ side' = "F" /\ current' = NoItem
    /\ moviesToCheck' = <<>> /\ batchStart' = 1 /\ handlers' = <<>>
    /\ outcome' = NoOutcome
    /\ provCalls' = NoCalls
    /\ stages' = {}
    /\ UNCHANGED <<env, ncalls, now, pathCache, actorCache, filmCache, castCache>>

\* time passes between two findPath calls
Tick ==
    /\ pc = "idle"
    /\ 0 < ncalls /\ ncalls < workload.calls
    /\ now < MaxTicks * TickMs
    /\ now' = now + TickMs
    /\ UNCHANGED <<env, ncalls, pathCache, actorCache, filmCache, castCache, pc,
                   actor1Id, actor2Id, searchVars, outcome, provCalls, stages, hist>>

Search ==
    \/ \E a, b \in SmallActors : FindPath(a, b)
    \/ ResolveEndpoints
    \/ DirectConnection
    \/ Iterate
    \/ ExpandDirection
    \/ \E i \in 1..BatchSize : HandlerStep(i)
    \/ BatchDone
    \/ Return

Next == Search

Spec == Init /\ [][Next]_vars

\* one findPath call between two actors who each have a large neighbourhood
InitBudget ==
    /\ graph = Crowds
    /\ failing = {}
    /\ variant \in {"single", "bidir"}
    /\ workload = [calls |-> 1, pairs |-> {<<1, 2>>}]
    /\ ColdCaches
    /\ Idle
    /\ KvUnused
    /\ req = NoRequest
    /\ lru = NoLru
    /\ ui = NoUi

SpecBudget == InitBudget /\ [][Next]_vars

\* the same findPath call made again and again, each time by a service that
\* was just started: stable provider data, cold caches
InitRuns ==
    /\ graph \in {TwoRoutes, Race, Fork, SharedCoStar, Chain3}
    /\ failing = {}
    /\ variant \in {"single", "bidir"}
    /\ workload = [calls |-> 1, pairs |-> {<<1, 2>>}]
    /\ ColdCaches
    /\ Idle
    /\ KvUnused
    /\ req = NoRequest
    /\ lru = NoLru
    /\ ui = NoUi

\* the service is started anew: every cache is empty again; the record of the
\* results the callers got is kept
Restart ==
    /\ pc = "idle"
    /\ ncalls = workload.calls
    /\ Len(hist) < MaxRuns
    /\ ncalls' = 0
    /\ pathCache' = EmptyMap
    /\ actorCache' = EmptyMap /\ filmCache' = EmptyMap /\ castCache' = EmptyMap
    /\ UNCHANGED <<env, now, pc, actor1Id, actor2Id, searchVars, outcome, provCalls,
                   stages, hist>>

NextRuns == Search \/ Restart

SpecRuns == InitRuns /\ [][NextRuns]_vars

\* findPath for a pair and for the reversed pair, each by a service that was
\* just started: the same provider data, nothing failing, cold caches
InitDirections ==
    /\ graph \in SmallGraphs \cup ScenarioGraphs
    /\ failing = {}
    /\ variant \in {"single", "bidir"}
    /\ workload = [calls |-> 1, pairs |-> {<<1, 2>>, <<2, 1>>}]
    /\ ColdCaches
    /\ Idle
    /\ KvUnused
    /\ req = NoRequest
    /\ lru = NoLru
    /\ ui = NoUi

SpecDirections == InitDirections /\ [][NextRuns]_vars

NextCache == Search \/ Tick

\* several calls on one service instance, with time passing between them
SpecCache == InitCache /\ [][NextCache]_vars

-----------------------------------------------------------------------------
(* The cache object on its own: get, set, wrap / getOrSet                    *)
(*   "service"  : unnamed/part_021 CacheService (ttl in seconds, wrap)       *)
(*   "inmemory" : backend/src/services/cache.ts InMemoryCache (ttl in ms)    *)
(*   "lru"      : unnamed/part_008 InMemoryCache (timestamp, getOrSet)       *)
(*   "map"      : the Maps of pathfinder.ts (has / get / set, no expiry)     *)

\* the key the operations work on, and a bystander entry under another key
KvKeys == {"a"}
KvOther == "b"

\* ttl arguments: zero or one hour; in seconds for "service", in milliseconds
\* for the others
KvTtls == IF kvImpl = "service" THEN {0, DefaultTTL \div SecondMs} ELSE {0, DefaultTTL}

\* the ttl argument in milliseconds
KvTtlMs(ttl) == IF kvImpl = "service" THEN ttl * SecondMs ELSE ttl

\* the expiry that set gives an entry written now with the argument ttl
KvExpiresAt(ttl) ==
    CASE kvImpl = "service" -> now + ttl * SecondMs
      [] kvImpl = "inmemory" -> now + (IF ttl = 0 THEN DefaultTTL ELSE ttl)
      [] kvImpl = "lru" -> now + DefaultTTL
      [] OTHER -> 0

\* an entry that counts as expired from its expiry time on
KvExpiredAtExpiry(entry) == kvImpl # "map" /\ now >= entry.expiresAt

\* Date.now() > entry.expiresAt; Date.now() - entry.timestamp > defaultTTL
KvExpired(entry) == kvImpl # "map" /\ now > entry.expiresAt

\* what get(key) returns on the Map `store`
KvGetResult(store, key) ==
    IF key \in DOMAIN store /\ ~KvExpired(store[key]) THEN store[key].data ELSE KvNull

\* the Map after get(key): an expired entry is deleted
KvAfterGet(store, key) ==
    IF key \in DOMAIN store /\ KvExpired(store[key]) THEN Drop(store, key) ELSE store

\* a set that stores nothing
KvAfterSetDropped(store, key, value, ttl) == store

\* the Map after set(key, value, ttl)
KvAfterSet(store, key, value, ttl) ==
    Put(store, key, [data |-> value, expiresAt |-> KvExpiresAt(ttl)])

\* a settle that stores the produced value even when the producer failed
KvAfterSettleAlways(store, c, ok) == KvAfterSet(store, c.key, c.value, c.ttl)

\* a settle that keeps the entry another caller stored in the meantime
KvAfterSettleFirstWins(store, c, ok) ==
    IF ok /\ c.key \notin DOMAIN store
    THEN KvAfterSet(store, c.key, c.value, c.ttl) ELSE store

\* the Map when the producer of call `c` has settled: this.set(key, data, ttl)
\* after a value, nothing after an error
KvAfterSettle(store, c, ok) ==
    IF ok THEN KvAfterSet(store, c.key, c.value, c.ttl) ELSE store

\* no wrap / getOrSet call is waiting for its producer
KvNoneFetching == \A u \in KvTaskIds : kvTasks[u].st = "idle"

\* the last two entries of the log, with `e` the newest
KvLogged(e) == IF kvLog = <<>> THEN <<e>> ELSE <<kvLog[Len(kvLog)], e>>

\* the value a caller passes to the n-th set
KvValue(n) == 100 + n

kvRest == <<graph, failing, variant, workload, ncalls, pathCache, actorCache, filmCache,
            castCache, pc, actor1Id, actor2Id, searchVars, outcome, provCalls, stages,
            hist, kvImpl, lru, ui, req>>

KvGet(key) ==
    /\ kvOps < MaxKvOps
    /\ kvOps' = kvOps + 1
    /\ kvStore' = KvAfterGet(kvStore, key)
    /\ kvLast' = [op |-> "get", key |-> key, ttl |-> 0, value |-> KvNull,
                  before |-> kvStore, prev |-> kvStore, at |-> now, result |-> KvGetResult(kvStore, key)]
    /\ UNCHANGED <<kvRest, now, kvTasks, kvProduced, kvTicks, kvLog>>

KvSet(key) ==
    \E ttl \in KvTtls :
    /\ kvOps < MaxKvOps
    /\ kvOps' = kvOps + 1
    /\ kvStore' = KvAfterSet(kvStore, key, KvValue(kvOps + 1), ttl)
    /\ kvLast' = [op |-> "set", key |-> key, ttl |-> ttl, value |-> KvValue(kvOps + 1),
                  before |-> kvStore, prev |-> kvStore, at |-> now, result |-> KvNull]
    /\ UNCHANGED <<kvRest, now, kvTasks, kvProduced, kvTicks, kvLog>>

\* Date.now() moves on
KvTick ==
    /\ kvTicks < MaxKvTicks
    /\ kvTicks' = kvTicks + 1
    /\ now' = now + DefaultTTL
    /\ UNCHANGED <<kvRest, kvStore, kvTasks, kvProduced, kvOps, kvLast, kvLog>>

\* wrap / getOrSet up to its await: the get, and on a miss the producer is invoked
KvWrapCall(t, key) ==
    \E ttl \in KvTtls :
    /\ kvImpl # "inmemory"
    /\ kvOps < MaxKvOps
    /\ kvTasks[t].st = "idle"
    /\ \A u \in KvTaskIds : u < t => kvTasks[u].st # "idle"
    /\ kvOps' = kvOps + 1
    /\ kvStore' = KvAfterGet(kvStore, key)
    /\ LET cached == KvGetResult(kvStore, key)
       IN  /\ kvLast' = [op |-> "wrap", key |-> key, ttl |-> ttl, value |-> KvNull,
                         before |-> kvStore, prev |-> kvStore, at |-> now,
                         result |-> cached]
           /\ IF cached # KvNull
              THEN /\ kvLog' = KvLogged(
                         [task |-> t, key |-> key, ttl |-> ttl, hit |-> TRUE, ok |-> TRUE,
                          value |-> KvNull, result |-> cached, startOp |-> kvOps + 1,
                          endOp |-> kvOps + 1, startAt |-> now, endAt |-> now,
                          solo |-> KvNoneFetching])
                   /\ UNCHANGED <<kvTasks, kvProduced>>
              ELSE /\ kvProduced' = kvProduced + 1
                   /\ kvTasks' = [kvTasks EXCEPT ![t] =
                         [st |-> "fetching", key |-> key, ttl |-> ttl,
                          value |-> kvProduced + 1, startOp |-> kvOps + 1,
                          startAt |-> now, before |-> kvStore,
                          alone |-> KvNoneFetching]]
                   /\ UNCHANGED kvLog
    /\ UNCHANGED <<kvRest, now, kvTicks>>

\* the producer settles: its value is stored and returned, or its error is rethrown
KvWrapSettle(t, ok) ==
    /\ kvTasks[t].st = "fetching"
    /\ LET c == kvTasks[t]
       IN  /\ kvStore' = KvAfterSettle(kvStore, c, ok)
           /\ kvLast' = [op |-> "settle", key |-> c.key, ttl |-> c.ttl, value |-> c.value,
                         before |-> c.before, prev |-> kvStore, at |-> now,
                         result |-> IF ok THEN c.value ELSE KvNull]
           /\ kvLog' = KvLogged(
                 [task |-> t, key |-> c.key, ttl |-> c.ttl, hit |-> FALSE, ok |-> ok,
                  value |-> c.value, result |-> IF ok THEN c.value ELSE KvNull,
                  startOp |-> c.startOp, endOp |-> kvOps, startAt |-> c.startAt,
                  endAt |-> now, solo |-> c.alone /\ c.startOp = kvOps])
    /\ kvTasks' = [kvTasks EXCEPT ![t] = KvIdleTask]
    /\ UNCHANGED <<kvRest, now, kvProduced, kvOps, kvTicks>>

\* a cache object that holds one entry, written at time 0 with the default TTL
InitKv ==
    /\ graph = CoStars /\ failing = {} /\ variant = "single"
    /\ workload = [calls |-> 0, pairs |-> {}]
    /\ ColdCaches
    /\ Idle
    /\ kvImpl \in {"service", "inmemory", "lru", "map"}
    /\ kvStore = [k \in {KvOther} |-> [data |-> KvValue(0), expiresAt |-> DefaultTTL]]
    /\ kvTasks = [t \in KvTaskIds |-> KvIdleTask]
    /\ kvProduced = 0 /\ kvOps = 0 /\ kvTicks = 0
    /\ kvLast = NoKvOp
    /\ kvLog = <<>>
    /\ req = NoRequest
    /\ lru = NoLru
    /\ ui = NoUi

NextKv ==
    \/ \E k \in KvKeys : KvGet(k)
    \/ \E k \in KvKeys : KvSet(k)
    \/ KvTick
    \/ \E t \in KvTaskIds, k \in KvKeys : KvWrapCall(t, k)
    \/ \E t \in KvTaskIds, ok \in BOOLEAN : KvWrapSettle(t, ok)

\* operations on one cache object, with time passing between them
SpecKv == InitKv /\ [][NextKv]_vars

\* what has(key) returns on the Map `store`
KvHasResult(store, key) == key \in DOMAIN store /\ ~KvExpired(store[key])

\* a sweep that also removes the entries that expire at this very moment
KvAfterCleanupAtExpiry(store) ==
    [k \in {x \in DOMAIN store : ~KvExpiredAtExpiry(store[x])} |-> store[k]]

\* the Map after cleanup() / cleanExpired(): the entries with
\* now > entry.expiresAt are deleted
KvAfterCleanup(store) ==
    [k \in {x \in DOMAIN store : ~KvExpired(store[x])} |-> store[k]]

\* has(key) of InMemoryCache: an expired entry is deleted
KvHas(key) ==
    /\ kvImpl = "inmemory"
    /\ kvOps < MaxKvOps
    /\ kvOps' = kvOps + 1
    /\ kvStore' = KvAfterGet(kvStore, key)
    /\ kvLast' = [op |-> "has", key |-> key, ttl |-> 0, value |-> KvNull,
                  before |-> kvStore, prev |-> kvStore, at |-> now,
                  result |-> IF KvHasResult(kvStore, key) THEN 1 ELSE 0]
    /\ UNCHANGED <<kvRest, now, kvTasks, kvProduced, kvTicks, kvLog>>

\* the periodic sweep runs: cleanup() of InMemoryCache, cleanExpired() of
\* CacheService
KvCleanup ==
    /\ kvOps < MaxKvOps
    /\ kvOps' = kvOps + 1
    /\ kvStore' = KvAfterCleanup(kvStore)
    /\ kvLast' = [op |-> "cleanup", key |-> "", ttl |-> 0, value |-> KvNull,
                  before |-> kvStore, prev |-> kvStore, at |-> now, result |-> KvNull]
    /\ UNCHANGED <<kvRest, now, kvTasks, kvProduced, kvTicks, kvLog>>

\* a cache object with an expiry per entry and a periodic sweep
InitSweep == InitKv /\ kvImpl \in {"service", "inmemory"}

NextSweep ==
    \/ \E k \in KvKeys \cup {KvOther} : KvGet(k)
    \/ \E k \in KvKeys : KvSet(k)
    \/ \E k \in KvKeys \cup {KvOther} : KvHas(k)
    \/ KvCleanup
    \/ KvTick

\* gets, sets and has on one cache object, with the sweep running at any moment
SpecSweep == InitSweep /\ [][NextSweep]_vars

-----------------------------------------------------------------------------
(* TMDBService.request: one HTTP GET with retry on rate limiting *)

\* HTTP status of a successful answer
Ok == 200
\* HTTP status of a rate-limited answer
RateLimited == 429
\* no HTTP answer at all (network failure): error.response is undefined
NoResponse == 0
\* what the upstream can answer to one GET
Statuses == {Ok, RateLimited, 404, 500, NoResponse}
Endpoints == {"/search/person", "/person/movie_credits", "/movie/credits"}

\* everything held constant while a request is under way
reqRest == <<graph, failing, variant, workload, ncalls, pathCache, actorCache, filmCache,
             castCache, pc, actor1Id, actor2Id, searchVars, outcome, provCalls, stages,
             hist, kvVars, lru, ui>>

\* a request whose catch block rethrows a 429 like any other error
ReqAfterAnswerNoRetry(r, status) ==
    IF status = Ok
    THEN [r EXCEPT !.st = "done", !.answers = Append(@, status), !.result = "data"]
    ELSE [r EXCEPT !.st = "done", !.answers = Append(@, status), !.result = "error",
                   !.thrown = status]

\* the request after axios.get settled with `status`: response.data is returned,
\* a 429 starts the one-second timer, any other error is rethrown
ReqAfterAnswer(r, status) ==
    CASE status = Ok ->
            [r EXCEPT !.st = "done", !.answers = Append(@, status), !.result = "data"]
      [] status = RateLimited ->
            [r EXCEPT !.st = "waiting", !.answers = Append(@, status)]
      [] OTHER ->
            [r EXCEPT !.st = "done", !.answers = Append(@, status), !.result = "error",
                      !.thrown = status]

\* a caller invokes request(endpoint): the GET is sent
ReqIssue(endpoint) ==
    /\ req.st \in {"idle", "done"}
    /\ req.n < MaxRequests
    /\ req' = [st |-> "inflight", endpoint |-> endpoint, n |-> req.n + 1, answers |-> <<>>,
               result |-> "none", thrown |-> 0, startedAt |-> now]
    /\ UNCHANGED <<reqRest, now>>

\* the upstream answers the GET in flight; it answers 429 at most MaxRateLimited
\* times in a row
ReqAnswer(status) ==
    /\ req.st = "inflight"
    /\ status = RateLimited => Len(req.answers) < MaxRateLimited
    /\ req' = ReqAfterAnswer(req, status)
    /\ UNCHANGED <<reqRest, now>>

\* the timer of the catch block fires and request calls itself with the same
\* endpoint and parameters
ReqRetry ==
    /\ req.st = "waiting"
    /\ now' = now + RetryDelayMs
    /\ req' = [req EXCEPT !.st = "inflight"]
    /\ UNCHANGED reqRest

InitReq ==
    /\ graph = CoStars /\ failing = {} /\ variant = "single"
    /\ workload = [calls |-> 0, pairs |-> {}]
    /\ ColdCaches
    /\ Idle
    /\ KvUnused
    /\ req = NoRequest
    /\ lru = NoLru
    /\ ui = NoUi

NextReq ==
    \/ \E e \in Endpoints : ReqIssue(e)
    \/ \E status \in Statuses : ReqAnswer(status)
    \/ ReqRetry

\* requests to the upstream, one after the other; the timer fires and every GET
\* is answered
SpecReq == InitReq /\ [][NextReq]_vars /\ WF_vars(NextReq)

-----------------------------------------------------------------------------
(* The LRU CacheService of backend/src/services/cache.ts: a Map in insertion  *)
(* order with a size limit, one TTL for all entries, and a timestamp per entry *)

\* keys: one more than fits into the cache
LruKeys == 1..(LruMaxSize + 1)

\* the keys of the Map
LruKeysOf(entries) == {entries[i].key : i \in DOMAIN entries}

\* this.cache.get(key)
LruEntry(entries, key) == entries[CHOOSE i \in DOMAIN entries : entries[i].key = key]

\* this.cache.delete(key)
LruWithout(entries, key) == SelectSeq(entries, LAMBDA e : e.key # key)

\* now - entry.timestamp > this.ttlMs
LruExpired(entry) == now - entry.timestamp > LruTtlMs

\* what get(key) returns
LruGetResult(entries, key) ==
    IF key \in LruKeysOf(entries) /\ ~LruExpired(LruEntry(entries, key))
    THEN LruEntry(entries, key).value ELSE KvNull

\* a get that reads the entry and leaves it as it is
LruAfterGetNoTouch(entries, key) ==
    IF key \in LruKeysOf(entries) /\ LruExpired(LruEntry(entries, key))
    THEN LruWithout(entries, key) ELSE entries

\* the Map after get(key): an expired entry is deleted; a live one gets the
\* timestamp of now, one more access, and moves to the end
LruAfterGet(entries, key) ==
    IF key \notin LruKeysOf(entries) THEN entries
    ELSE LET entry == LruEntry(entries, key)
         IN  IF LruExpired(entry) THEN LruWithout(entries, key)
             ELSE Append(LruWithout(entries, key),
                         [entry EXCEPT !.timestamp = now, !.accessCount = @ + 1])

\* evictLRU: the first key of the Map is deleted
LruEvict(entries) == IF entries = <<>> THEN entries ELSE Tail(entries)

\* this.cache.set(key, entry): a key of the Map keeps its place, a new key goes
\* to the end
LruMapSet(entries, entry) ==
    IF entry.key \in LruKeysOf(entries)
    THEN [i \in DOMAIN entries |-> IF entries[i].key = entry.key THEN entry ELSE entries[i]]
    ELSE Append(entries, entry)

\* a set that never evicts
LruAfterSetNoEvict(entries, key, value) ==
    LruMapSet(entries, [key |-> key, value |-> value, timestamp |-> now, accessCount |-> 0])

\* the Map after set(key, value)
LruAfterSet(entries, key, value) ==
    LruMapSet(IF Len(entries) >= LruMaxSize /\ key \notin LruKeysOf(entries)
              THEN LruEvict(entries) ELSE entries,
              [key |-> key, value |-> value, timestamp |-> now, accessCount |-> 0])

\* what has(key) returns
LruHasResult(entries, key) ==
    key \in LruKeysOf(entries) /\ ~LruExpired(LruEntry(entries, key))

\* the Map after has(key): an expired entry is deleted
LruAfterHas(entries, key) ==
    IF key \in LruKeysOf(entries) /\ LruExpired(LruEntry(entries, key))
    THEN LruWithout(entries, key) ELSE entries

\* the Map after cleanup(): the expired entries are deleted
LruAfterCleanup(entries) == SelectSeq(entries, LAMBDA e : ~LruExpired(e))

\* one operation is made: the Map after it and the record of it
LruOp(op, key, result, entries) ==
    [lru EXCEPT !.entries = entries, !.ops = @ + 1,
                !.last = [op |-> op, key |-> key, result |-> result]]

lruRest == <<graph, failing, variant, workload, ncalls, pathCache, actorCache, filmCache,
             castCache, pc, actor1Id, actor2Id, searchVars, outcome, provCalls, stages,
             hist, kvVars, ui, req>>

LruGet(key) ==
    /\ lru.ops < MaxLruOps
    /\ lru' = [LruOp("get", key, LruGetResult(lru.entries, key),
                     LruAfterGet(lru.entries, key))
                 EXCEPT !.lastUse = IF LruGetResult(lru.entries, key) # KvNull
                                    THEN Put(@, key, lru.ops + 1) ELSE @]
    /\ UNCHANGED <<lruRest, now>>

LruSet(key) ==
    /\ lru.ops < MaxLruOps
    /\ lru' = [LruOp("set", key, KvNull,
                     LruAfterSet(lru.entries, key, KvValue(lru.ops + 1)))
                 EXCEPT !.lastUse = Put(@, key, lru.ops + 1),
                        !.setAt = Put(@, key, now)]
    /\ UNCHANGED <<lruRest, now>>

LruHas(key) ==
    /\ lru.ops < MaxLruOps
    /\ lru' = LruOp("has", key, IF LruHasResult(lru.entries, key) THEN 1 ELSE 0,
                    LruAfterHas(lru.entries, key))
    /\ UNCHANGED <<lruRest, now>>

LruDelete(key) ==
    /\ lru.ops < MaxLruOps
    /\ lru' = LruOp("delete", key, IF key \in LruKeysOf(lru.entries) THEN 1 ELSE 0,
                    LruWithout(lru.entries, key))
    /\ UNCHANGED <<lruRest, now>>

LruClear ==
    /\ lru.ops < MaxLruOps
    /\ lru' = LruOp("clear", 0, KvNull, <<>>)
    /\ UNCHANGED <<lruRest, now>>

LruCleanup ==
    /\ lru.ops < MaxLruOps
    /\ lru' = LruOp("cleanup", 0, KvNull, LruAfterCleanup(lru.entries))
    /\ UNCHANGED <<lruRest, now>>

\* Date.now() moves on
LruTick ==
    /\ lru.ticks < MaxLruTicks
    /\ lru' = [lru EXCEPT !.ticks = @ + 1]
    /\ now' = now + LruTickMs
    /\ UNCHANGED lruRest

InitLru ==
    /\ graph = CoStars /\ failing = {} /\ variant = "single"
    /\ workload = [calls |-> 0, pairs |-> {}]
    /\ ColdCaches
    /\ Idle
    /\ KvUnused
    /\ req = NoRequest
    /\ lru = NoLru
    /\ ui = NoUi

NextLru ==
    \/ \E k \in LruKeys : LruGet(k)
    \/ \E k \in LruKeys : LruSet(k)
    \/ \E k \in LruKeys : LruHas(k)
    \/ \E k \in LruKeys : LruDelete(k)
    \/ LruClear
    \/ LruCleanup
    \/ LruTick

\* operations on one LRU cache, with time passing between them
SpecLru == InitLru /\ [][NextLru]_vars

-----------------------------------------------------------------------------
(* The ActorSearch component: the debounced search of the input field *)

\* what the user can have in the input field
InputValues == {"", " ", "a", "ab"}

\* !inputValue.trim()
Blank(v) == v \in {"", " "}

\* what searchActors(query) resolves to: the ids of the matching actors
SearchResults(query) ==
    CASE query = "a" -> <<1, 2>>
      [] query = "ab" -> <<2>>
      [] OTHER -> <<>>

\* the component after searchActors of request `r` has settled: setItems(results),
\* or setItems([]) in the catch block, and setIsLoading(false)
UiAfterResponse(u, r, ok) ==
    [u EXCEPT !.inflight = @ \ {r},
              !.items = IF ok THEN SearchResults(r.query) ELSE <<>>,
              !.isLoading = FALSE,
              !.failed = @ \/ ~ok]

uiRest == <<graph, failing, variant, workload, ncalls, pathCache, actorCache, filmCache,
            castCache, pc, actor1Id, actor2Id, searchVars, outcome, provCalls, stages,
            hist, kvVars, lru, req>>

\* onInputChange with a new value: the effect's cleanup and the effect run; the
\* pending timer is cleared; a blank value clears the list, any other value
\* starts the timer
UiInput(v) ==
    /\ ui.inputs < MaxInputs
    /\ v # ui.inputValue
    /\ ui' = IF Blank(v)
             THEN [ui EXCEPT !.inputValue = v, !.inputs = @ + 1, !.changedAt = now,
                             !.timer = NoTimer, !.items = <<>>, !.isLoading = FALSE]
             ELSE [ui EXCEPT !.inputValue = v, !.inputs = @ + 1, !.changedAt = now,
                             !.timer = [armed |-> TRUE, query |-> v, setAt |-> now],
                             !.isLoading = TRUE]
    /\ UNCHANGED <<uiRest, now>>

\* the debounce timer fires, not before its delay: searchActors(inputValue) is
\* called with the value of the render that set the timer
UiTimerFire ==
    /\ ui.timer.armed
    /\ now >= ui.timer.setAt + DebounceMs
    /\ ui' = [ui EXCEPT !.timer = NoTimer, !.issued = @ + 1,
                        !.inflight = @ \cup {[id |-> ui.issued + 1, query |-> ui.timer.query]}]
    /\ UNCHANGED <<uiRest, now>>

\* a request in flight settles, in any order, with results or with an error
UiSettle(ok) ==
    \E r \in ui.inflight :
        /\ ui' = UiAfterResponse(ui, r, ok)
        /\ UNCHANGED <<uiRest, now>>

\* time passes
UiTick ==
    /\ ui.ticks < MaxUiTicks
    /\ ui' = [ui EXCEPT !.ticks = @ + 1]
    /\ now' = now + UiTickMs
    /\ UNCHANGED uiRest

InitUi ==
    /\ graph = CoStars /\ failing = {} /\ variant = "single"
    /\ workload = [calls |-> 0, pairs |-> {}]
    /\ ColdCaches
    /\ Idle
    /\ KvUnused
    /\ req = NoRequest
    /\ lru = NoLru
    /\ ui = NoUi

NextUi ==
    \/ \E v \in InputValues : UiInput(v)
    \/ UiTimerFire
    \/ \E ok \in BOOLEAN : UiSettle(ok)
    \/ UiTick

\* a user typing into one ActorSearch field
SpecUi == InitUi /\ [][NextUi]_vars

\* the event loop runs every continuation that is ready, and every provider call
\* completes (with a value or an error)
FairSpec == Init /\ [][Next]_vars /\ WF_vars(Next)

-----------------------------------------------------------------------------
(* Properties *)

Returned == pc = "done" /\ outcome.kind = "path"

ActorIdx(path) == {i \in 1..Len(path) : path[i].type = "actor"}
MovieIdx(path) == {i \in 1..Len(path) : path[i].type = "movie"}

\* actor, movie, actor, ..., movie, actor
Alternates(path) ==
    /\ Len(path) % 2 = 1
    /\ \A i \in 1..Len(path) :
          path[i].type = IF i % 2 = 1 THEN "actor" ELSE "movie"

\* C1: every path returned for two different actors starts and ends with an actor
\* step and strictly alternates actor, movie, ..., movie, actor, whether it comes
\* from the direct shortcut, the single-direction BFS or a meeting point
C1_Alternation ==
    (Returned /\ actor1Id # actor2Id) =>
        /\ Len(outcome.path) >= 3
        /\ Alternates(outcome.path)

\* a meeting point found while expanding the backward side, two movies on each half
C1_Witness ==
    /\ Returned /\ variant = "bidir" /\ "bfs" \in stages /\ side = "B"
    /\ Len(outcome.path) = 9

\* C2: degrees of a returned path = number of actor steps - 1 = number of movie steps
C2_Degrees ==
    Returned =>
        /\ outcome.degrees = Cardinality(ActorIdx(outcome.path)) - 1
        /\ outcome.degrees = Cardinality(MovieIdx(outcome.path))

\* a path of three hops returned by the single-direction BFS
C2_Witness ==
    /\ Returned /\ variant = "single" /\ "bfs" \in stages
    /\ outcome.degrees = 3

\* the provider data connects actor x and actor y through movie m
Linked(x, m, y) ==
    \/ m \in Range(Film(x)) /\ y \in Range(Cast(m))
    \/ m \in Range(Film(y)) /\ x \in Range(Cast(m))

\* C3: every returned path is a chain of shared-movie connections of the provider
\* data, and its two end steps are the two requested actors
C3_GenuineChain ==
    Returned =>
        LET path == outcome.path
        IN  /\ path[1].type = "actor" /\ path[Len(path)].type = "actor"
            /\ {path[1].id, path[Len(path)].id} = {actor1Id, actor2Id}
            /\ \A i \in MovieIdx(path) :
                  /\ 1 < i /\ i < Len(path)
                  /\ path[i - 1].type = "actor" /\ path[i + 1].type = "actor"
                  /\ Linked(path[i - 1].id, path[i].id, path[i + 1].id)

\* a meeting point whose other half has two movies
C3_Witness ==
    /\ Returned /\ variant = "bidir" /\ "bfs" \in stages
    /\ outcome.degrees = 4
    /\ \E i \in DOMAIN handlers :
          handlers[i].found /\ Len(OtherVisited(side)[handlers[i].cast[handlers[i].k]]) = 5

\* C4: findPath(X, X) for a valid X returns the one-step path of actor X with
\* degrees 0, and runs neither the direct-connection check nor a BFS phase
C4_Trivial ==
    (pc = "done" /\ actor1Id = actor2Id /\ "cached" \notin stages) =>
        /\ ~Fails("actor", actor1Id) =>
              outcome = PathOutcome(<<ActorStep(actor1Id)>>, 0)
        /\ stages = {"trivial"}
        /\ provCalls.film = 0 /\ provCalls.cast = 0
        /\ iterations = 0

C4_Witness ==
    /\ Returned /\ actor1Id = actor2Id /\ variant = "bidir"
    /\ Len(Film(actor1Id)) > 0

\* movies of a's filmography whose cast contains b
SharedMovies(a, b) == {m \in Range(Film(a)) : b \in Range(Cast(m))}

\* positions among the first 30 of a's filmography whose cast fetch succeeds and
\* whose cast contains b
ShortcutMatches(a, b) ==
    {i \in 1..Len(Film(a)) :
        /\ i <= DirectLimit
        /\ ~Fails("cast", Film(a)[i])
        /\ b \in Range(Cast(Film(a)[i]))}

CoStarsBetween(a, b) ==
    {x \in DOMAIN graph.film \ {a, b} :
        /\ \E m \in Range(Film(a)) : x \in Range(Cast(m))
        /\ \E m \in Range(Film(x)) : b \in Range(Cast(m))}

NearCoStar(a, x) ==
    \E i \in 1..Len(Film(a)) :
        /\ i <= 30
        /\ \E j \in 1..Len(Cast(Film(a)[i])) : j <= 20 /\ Cast(Film(a)[i])[j] = x

\* b is in the cast of one of the first 30 movies of x
NearTarget(x, b) ==
    \E i \in 1..Len(Film(x)) : i <= 30 /\ b \in Range(Cast(Film(x)[i]))

Neighbours(x) ==
    {y \in DOMAIN graph.film : \E m \in Range(Film(x)) : y \in Range(Cast(m))} \ {x}

\* a reference breadth-first search by whole levels: the number of movie hops from
\* the frontier (at distance d) to the target, or -1
RECURSIVE HopsFrom(_, _, _, _)
HopsFrom(frontier, seen, d, target) ==
    IF target \in frontier THEN d
    ELSE LET next == UNION {Neighbours(x) : x \in frontier} \ seen
         IN  IF next = {} THEN 0 - 1
             ELSE HopsFrom(next, seen \cup next, d + 1, target)

Hops(a, b) == HopsFrom({a}, {a}, 0, b)

\* no filmography is longer than the smallest movie cap, no cast longer than the
\* smallest cast cap
Untruncated ==
    /\ \A a \in DOMAIN graph.film : Len(Film(a)) <= Phases[1].movies
    /\ \A m \in DOMAIN graph.cast : Len(Cast(m)) <= Phases[1].castMembers

\* C7: on a graph that no cap, depth limit or iteration budget truncates, the
\* degrees of the returned path is the minimum number of movie hops between the
\* two actors
C7_Shortest ==
    (Returned /\ failing = {} /\ Untruncated /\ "cached" \notin stages) =>
        outcome.degrees = Hops(actor1Id, actor2Id)

\* what findPath hands to its caller is a complete PathResult or an error
WellFormedOutcome ==
    /\ outcome.kind \in {"path", "notfound", "error"}
    /\ outcome.kind = "path" =>
          /\ Alternates(outcome.path)
          /\ outcome.degrees = Cardinality(MovieIdx(outcome.path))

\* C8: when every provider call completes, findPath terminates; for two actors
\* without a connecting path it ends with NotFound after the last phase; what it
\* returns is never malformed
C8_Exhaustion ==
    /\ [](pc = "done" =>
            /\ WellFormedOutcome
            /\ (failing = {} /\ Hops(actor1Id, actor2Id) = 0 - 1) =>
                  (outcome = NotFound /\ phase = LastPhase))
    /\ (pc = "endpoints") ~> (pc = "done")

\* all three phases of the bidirectional search ran dry on a graph where both
\* actors have co-stars
C8_Witness ==
    /\ pc = "done" /\ outcome = NotFound /\ variant = "bidir" /\ phase = 3
    /\ Neighbours(actor1Id) # {} /\ Neighbours(actor2Id) # {}

\* earlier calls that computed and stored a result for the pair <<a, b>>, in this order
StoredCalls(a, b) ==
    {i \in DOMAIN hist : /\ hist[i].a = a /\ hist[i].b = b
                         /\ hist[i].outcome.kind = "path"
                         /\ "cached" \notin hist[i].stages}

\* ... whose entry has not expired
LiveCalls(a, b) == {i \in StoredCalls(a, b) : now < hist[i].at + PathTTL}

\* the call that stored last under the key of the current pair
LastStored ==
    LET S == StoredCalls(actor1Id, actor2Id) \cup StoredCalls(actor2Id, actor1Id)
    IN  hist[CHOOSE i \in S : \A j \in S : j <= i]

\* the current call was answered from the path cache alone
ServedFromCache ==
    /\ stages = {"cached"}
    /\ outcome = LastStored.outcome

\* C9: pathKey(a, b) = pathKey(b, a) for all ids, and once findPath(A, B) has
\* stored its result, findPath(B, A) before the expiry is served from that entry
\* without any provider call
C9_Symmetry ==
    /\ \A a, b \in SmallActors : pathKey(a, b) = pathKey(b, a)
    /\ (variant = "bidir" /\ pc = "done" /\ LiveCalls(actor2Id, actor1Id) # {}) =>
          (ServedFromCache /\ provCalls = NoCalls)

\* findPath(2, 1) is served from the entry that findPath(1, 2) stored after a search
C9_Witness ==
    /\ pc = "done" /\ actor1Id = 2 /\ actor2Id = 1
    /\ LiveCalls(1, 2) # {} /\ StoredCalls(2, 1) = {}
    /\ "bfs" \in LastStored.stages
    /\ stages = {"cached"} /\ provCalls = NoCalls

\* C10: a second findPath(A, B) within the path TTL of a successful one returns
\* the cached result with no further filmography or cast call to the provider
C10_Idempotence ==
    (variant = "bidir" /\ pc = "done" /\ LiveCalls(actor1Id, actor2Id) # {}) =>
        /\ ServedFromCache
        /\ provCalls.film = 0 /\ provCalls.cast = 0

\* the second findPath(1, 2) comes later than the first, inside the TTL, and the
\* first one had fetched filmographies and casts
C10_Witness ==
    /\ pc = "done" /\ actor1Id = 1 /\ actor2Id = 2
    /\ \E i \in LiveCalls(1, 2) : hist[i].at < now /\ "bfs" \in hist[i].stages
    /\ StoredCalls(2, 1) = {}
    /\ stages = {"cached"} /\ provCalls.film = 0 /\ provCalls.cast = 0

\* the calls that stored a result under the key of the current pair
StoredForPair == StoredCalls(actor1Id, actor2Id) \cup StoredCalls(actor2Id, actor1Id)

\* the path TTL of every entry stored for the current pair has elapsed
PathExpired ==
    /\ StoredForPair # {}
    /\ \A i \in StoredForPair : now > hist[i].at + PathTTL

\* provider invocations of the current call
ProviderCalls == provCalls.details + provCalls.film + provCalls.cast

SeenCast(m) == IF Fails("cast", m) THEN <<>> ELSE Prefix(Cast(m), SingleCast)

\* the co-stars of x the search can see under the smallest caps
CappedNeighbours(x) ==
    {y \in DOMAIN graph.film :
        \E m \in Range(Prefix(Film(x), SingleMovies)) : y \in Range(SeenCast(m))} \ {x}

\* hops of a reference breadth-first search over CappedNeighbours, or -1
RECURSIVE CappedHopsFrom(_, _, _, _)
CappedHopsFrom(frontier, seen, d, target) ==
    IF target \in frontier THEN d
    ELSE LET next == UNION {CappedNeighbours(x) : x \in frontier} \ seen
         IN  IF next = {} THEN 0 - 1
             ELSE CappedHopsFrom(next, seen \cup next, d + 1, target)

CappedHops(a, b) == CappedHopsFrom({a}, {a}, 0, b)

\* the one movie whose cast fetch fails, if any
FailingMovies == {m \in DOMAIN graph.cast : Fails("cast", m)}

\* C12: when the cast fetch of one movie fails and the target is still within
\* three hops through movies whose fetches succeed (inside the 30-movie and
\* 20-cast caps), findPath returns a well-formed path that avoids the failing movie
C12_PartialFailure ==
    (pc = "done" /\ actor1Id # actor2Id /\ "cached" \notin stages
        /\ FailingMovies # {} /\ failing = {<<"cast", m>> : m \in FailingMovies}
        /\ CappedHops(actor1Id, actor2Id) \in 1..(SingleDepth - 1)) =>
        /\ outcome.kind = "path"
        /\ Alternates(outcome.path)
        /\ \A i \in MovieIdx(outcome.path) : outcome.path[i].id \notin FailingMovies

\* the failing movie is in the start actor's filmography and the path found by the
\* BFS goes around it
C12_Witness ==
    /\ Returned /\ "bfs" \in stages /\ failing # {}
    /\ \E m \in FailingMovies : m \in Range(Film(actor1Id))
    /\ outcome.degrees = 2

\* C13: a provider error while fetching one movie's cast or one actor's filmography
\* during frontier expansion is skipped and never makes findPath fail
C13_ExpansionErrorsSkipped ==
    (pc = "done" /\ failing # {} /\ \A f \in failing : f[1] \in {"cast", "film"}) =>
        outcome.kind \in {"path", "notfound"}

\* C14: when only actor-details fetches fail, an error reaches the caller of
\* findPath only if the details of actor1 or actor2 themselves cannot be fetched;
\* a failing intermediate actor never aborts the search
C14_OnlyEndpointErrors ==
    (pc = "done" /\ outcome.kind = "error" /\ \A f \in failing : f[1] = "actor") =>
        (Fails("actor", actor1Id) \/ Fails("actor", actor2Id))

\* the entries of `store` under the keys other than `key`
KvOthers(store, key) == [k \in DOMAIN store \ {key} |-> store[k]]

\* C15: get returns the stored value if an entry exists and the time of the get
\* does not exceed its expiry; otherwise it returns null, and an expired entry is
\* removed from the Map by that get (no other entry is touched)
C15_Get ==
    (kvLast.op = "get" /\ kvImpl # "map") =>
        LET k == kvLast.key
            before == kvLast.before
        IN  /\ KvOthers(kvStore, k) = KvOthers(before, k)
            /\ IF k \in DOMAIN before /\ kvLast.at <= before[k].expiresAt
               THEN kvLast.result = before[k].data /\ kvStore = before
               ELSE kvLast.result = KvNull /\ k \notin DOMAIN kvStore

\* a get that found an expired entry and removed it
C15_Witness ==
    /\ kvLast.op = "get" /\ kvImpl = "service"
    /\ kvLast.key \in DOMAIN kvLast.before
    /\ kvLast.key \notin DOMAIN kvStore
    /\ kvLast.result = KvNull

\* C16: set(key, value, ttl) with ttl >= 0 stores the value with expiry exactly
\* now + ttl, replacing any entry of that key and touching no other, so that get
\* returns the value until now + ttl and null afterwards
C16_Set ==
    (kvLast.op = "set" /\ kvImpl \in {"service", "inmemory"}) =>
        LET k == kvLast.key
        IN  /\ k \in DOMAIN kvStore
            /\ kvStore[k] = [data |-> kvLast.value,
                             expiresAt |-> kvLast.at + KvTtlMs(kvLast.ttl)]
            /\ KvOthers(kvStore, k) = KvOthers(kvLast.before, k)

\* the newest entry of the log is a call that came right after the one before it
\* had settled, for the same key and within the ttl that call had passed
KvSequentialPair ==
    /\ Len(kvLog) = 2
    /\ kvLog[1].key = kvLog[2].key
    /\ ~kvLog[1].hit /\ kvLog[1].ok
    /\ kvLog[2].startOp = kvLog[1].endOp + 1
    /\ kvLog[2].startAt <= kvLog[1].endAt + KvTtlMs(kvLog[1].ttl)

\* C17: wrap / getOrSet returns a fresh cached value without invoking the producer;
\* on a miss it invokes the producer once, stores the produced value and returns
\* it; of two sequential calls for a key within the TTL only the first invokes
\* the producer and both return the same value
C17_GetOrCompute ==
    /\ (kvLast.op = "wrap" /\ kvLast.result # KvNull) =>
          /\ kvLast.result = kvLast.before[kvLast.key].data
          /\ kvLog[Len(kvLog)].hit /\ kvLog[Len(kvLog)].result = kvLast.result
          /\ kvLog[Len(kvLog)].value = KvNull
          /\ kvStore = kvLast.before
    /\ (kvLast.op = "wrap" /\ kvLast.result = KvNull) =>
          \E t \in KvTaskIds : /\ kvTasks[t].st = "fetching"
                               /\ kvTasks[t].value = kvProduced
                               /\ kvTasks[t].startOp = kvOps
    /\ (kvLast.op = "settle" /\ kvLast.result # KvNull /\ kvLast.at = now) =>
          /\ kvLast.key \in DOMAIN kvStore
          /\ kvStore[kvLast.key].data = kvLast.value
          /\ kvLast.result = kvLast.value
          /\ kvLog[Len(kvLog)].result = kvLast.value
    /\ KvSequentialPair =>
          /\ kvLog[2].hit
          /\ kvLog[2].value = KvNull
          /\ kvLog[2].result = kvLog[1].result

\* the second call comes one hour after the first had stored its value with a ttl
\* of one hour, and is served from the cache
C17_Witness ==
    /\ KvSequentialPair /\ kvImpl = "service"
    /\ kvLog[2].hit /\ kvLog[2].result = kvLog[1].value
    /\ kvLog[2].startAt = kvLog[1].endAt + DefaultTTL
    /\ kvProduced = 1

\* the newest call of the log failed with no other call or operation during it
KvFailedAlone ==
    /\ kvLast.op = "settle" /\ kvLast.result = KvNull
    /\ kvLog[Len(kvLog)].solo

\* C18 as stated: after a failed producer the entries of the cache are the same as
\* before the call
C18_AsStated == KvFailedAlone => kvStore = kvLast.before

\* C18 amended: when the producer fails the caller gets the error and the call
\* stores nothing; the only entry that can be gone since before the call is an
\* expired entry of that key, removed by the initial get; the next call for the
\* key invokes the producer again
C18_FailedProducer ==
    /\ (kvLast.op = "settle" /\ kvLast.result = KvNull) =>
          /\ kvStore = kvLast.prev
          /\ ~kvLog[Len(kvLog)].ok /\ kvLog[Len(kvLog)].result = KvNull
    /\ KvFailedAlone =>
          /\ kvStore = KvOthers(kvLast.before, kvLast.key)
          /\ kvLast.key \in DOMAIN kvLast.before =>
                kvLast.before[kvLast.key].expiresAt < kvLog[Len(kvLog)].startAt
    /\ (/\ Len(kvLog) = 2
        /\ kvLog[1].key = kvLog[2].key
        /\ ~kvLog[1].ok /\ kvLog[1].solo
        /\ kvLog[2].startOp = kvLog[1].endOp + 1) =>
          /\ ~kvLog[2].hit
          /\ kvLog[2].value = kvLog[1].value + 1

\* a failed call with nothing else during it, followed by a call for the same key
\* that invokes the producer again and stores its value
C18_Witness ==
    /\ Len(kvLog) = 2 /\ kvImpl = "service"
    /\ ~kvLog[1].ok /\ kvLog[1].solo
    /\ kvLog[2].startOp = kvLog[1].endOp + 1
    /\ kvLog[2].ok /\ ~kvLog[2].hit
    /\ kvLast.op = "settle" /\ kvLast.key \notin DOMAIN kvLast.before

\* two calls of the log that both invoked the producer while the other one was
\* waiting for its own
KvOverlapping ==
    /\ Len(kvLog) = 2
    /\ kvLog[1].key = kvLog[2].key /\ kvLog[1].task # kvLog[2].task
    /\ ~kvLog[1].hit /\ ~kvLog[2].hit
    /\ kvLog[2].startOp <= kvLog[1].endOp

\* C19: there is no single-flight guard: in every interleaving of get-or-compute
\* calls each caller that missed receives the value of its own producer
\* invocation, and a settling producer writes one whole entry, its own value with
\* the expiry of its own ttl, over whatever an earlier caller stored, leaving the
\* other keys alone
C19_NoSingleFlight ==
    /\ \A i \in DOMAIN kvLog :
          /\ (~kvLog[i].hit /\ kvLog[i].ok) => kvLog[i].result = kvLog[i].value
          /\ kvLog[i].value <= kvProduced
    /\ KvOverlapping => kvLog[1].value # kvLog[2].value
    /\ (kvLast.op = "settle" /\ kvLast.result # KvNull /\ kvLast.at = now) =>
          /\ kvLast.key \in DOMAIN kvStore
          /\ kvStore[kvLast.key] =
                [data |-> kvLast.value, expiresAt |-> KvExpiresAt(kvLast.ttl)]
          /\ KvOthers(kvStore, kvLast.key) = KvOthers(kvLast.prev, kvLast.key)

\* two callers missed the same cold key and both invoked the producer; the one
\* that invoked it first settled last and its value is the one stored
C19_Witness ==
    /\ KvOverlapping
    /\ kvLog[1].ok /\ kvLog[2].ok
    /\ kvLog[2].value < kvLog[1].value
    /\ kvLast.op = "settle" /\ kvLast.key \notin DOMAIN kvLast.before
    /\ kvStore[kvLast.key].data = kvLog[2].value
    /\ kvLog[1].result = kvLog[1].value

\* C20: a GET answered with 429 is sent again after the delay, for the same
\* endpoint, until the answer is not a 429; the caller receives that answer, the
\* data or the error, and never a 429; any other failure is thrown at its first
\* occurrence; the request completes once the upstream answers something else
\* than 429
C20_RateLimitRetry ==
    /\ [](/\ req.st = "waiting" => req.answers[Len(req.answers)] = RateLimited
          /\ req.st = "done" =>
                /\ \A i \in 1..(Len(req.answers) - 1) : req.answers[i] = RateLimited
                /\ req.answers[Len(req.answers)] # RateLimited
                /\ req.result = "data" <=> req.answers[Len(req.answers)] = Ok
                /\ req.result = "error" <=>
                      (req.thrown = req.answers[Len(req.answers)] /\ req.thrown # Ok)
                /\ req.thrown # RateLimited
                /\ now = req.startedAt + (Len(req.answers) - 1) * RetryDelayMs)
    /\ (req.st = "inflight") ~> (req.st = "done")

\* a request that was rate limited twice and then failed with a server error,
\* which the caller received two delays after the call
C20_Witness ==
    /\ req.st = "done" /\ req.answers = <<RateLimited, RateLimited, 500>>
    /\ req.result = "error" /\ req.thrown = 500
    /\ now = req.startedAt + 2 * RetryDelayMs

\* the phase in progress has run out: its budget is used up or its frontiers are empty
PhaseExhausted == pc = "loop" /\ ~LoopGoesOn

\* C21: the three-phase engine tries the profiles (30, 20, 4, 250),
\* (100, 100, 6, 1000), (500, 500, 8, 2000) in this order; a phase starts only
\* when the one before it ran out without a result; the path a phase finds is
\* returned at once and no later phase runs; NotFound is raised only when the
\* third phase ran out
C21_PhaseEscalation ==
    /\ [](variant = "bidir" =>
            /\ Phases[1] = [movies |-> 30, castMembers |-> 20, depth |-> 4,
                            iterationsLimit |-> 250]
            /\ Phases[2] = [movies |-> 100, castMembers |-> 100, depth |-> 6,
                            iterationsLimit |-> 1000]
            /\ Phases[3] = [movies |-> 500, castMembers |-> 500, depth |-> 8,
                            iterationsLimit |-> 2000]
            /\ phase \in 1..3
            /\ (pc = "done" /\ outcome = NotFound) =>
                  (phase = 3 /\ ~LoopGoesOn /\ "bfs" \in stages))
    /\ [][variant = "bidir" =>
            /\ phase' # phase =>
                  \/ phase' = phase + 1 /\ PhaseExhausted /\ outcome = NoOutcome
                                        /\ outcome' = NoOutcome
                  \/ phase' = 1 /\ pc \in {"direct", "done"}
            /\ (pc = "batch" /\ FoundHandlers # {}
                    /\ \A i \in DOMAIN handlers : handlers[i].st = "done") =>
                  /\ pc' = "done" /\ phase' = phase
                  /\ outcome'.kind = "path"
                  /\ outcome'.path = handlers[MinOf(FoundHandlers)].path
            /\ (PhaseExhausted /\ phase < 3) => (phase' = phase + 1 /\ pc' = "loop")
            /\ pc = "done" => pc' = "idle"]_vars

\* the second profile found the path that the first one could not reach
C21_Witness ==
    /\ variant = "bidir" /\ pc = "done" /\ phase = 2
    /\ outcome.kind = "path" /\ outcome.degrees = 7

\* C22: within a phase the frontier pops of both sides together never exceed the
\* iteration budget of the phase
C22_IterationBudget == pc # "idle" => pops <= Profile.iterationsLimit

\* no two items of the frontier are for the same actor
Distinct(queue) ==
    \A i, j \in DOMAIN queue : i # j => queue[i].actorId # queue[j].actorId

\* C23: within a phase an actor is pushed onto the frontier of a side at most
\* once, also when it is in the casts of several movies of one batch (an actor is
\* pushed only while it is not marked visited and stays marked until the phase
\* ends, so two pushes of one actor are both in the frontier when the second
\* one happens)
C23_NoDuplicateEnqueue == Distinct(queueF) /\ Distinct(queueB)

\* the handlers that have not returned yet
InFlight == {i \in DOMAIN handlers : handlers[i].st # "done"}

\* handler i of the next state has just been started: it awaits its cast fetch
\* and was not there, or was another one, before the step
StartedHandler(i) ==
    /\ i \in DOMAIN handlers' /\ handlers'[i].st = "cast"
    /\ i \notin DOMAIN handlers \/ handlers[i] # handlers'[i]

\* C24: an expansion handles the movies of the popped actor in batches of 5, in
\* filmography order; never more than 5 handlers are in flight; a handler, and
\* with it its cast fetch, is started only when every handler of the batch
\* before has returned
C24_BatchBarrier ==
    /\ [](/\ BatchSize = 5
          /\ Len(handlers) <= 5 /\ Cardinality(InFlight) <= 5
          /\ pc = "batch" =>
                /\ batchStart % 5 = 1
                /\ Len(handlers) = Min2(5, Len(moviesToCheck) - batchStart + 1)
                /\ \A i \in DOMAIN handlers :
                      handlers[i].movie = moviesToCheck[batchStart + i - 1])
    /\ [][(\E i \in 1..Len(handlers') : StartedHandler(i)) =>
              /\ InFlight = {}
              /\ \A i \in 1..Len(handlers') : StartedHandler(i)]_vars

\* the second batch of an expansion is under way, some of its handlers have
\* returned and some have not
C24_Witness ==
    /\ pc = "batch" /\ batchStart = 6 /\ Len(handlers) = 5
    /\ InFlight # {} /\ InFlight # DOMAIN handlers

\* does the cast of movie m, as a handler of the expansion in progress sees it,
\* contain a match: the target (single), an actor reached from the other side
\* (bidir)
HasMatch(m) ==
    IF variant = "single" THEN actor2Id \in Range(Cast(m))
    ELSE \E c \in Range(Prefix(Cast(m), Profile.castMembers)) :
            c # current.actorId /\ c \in DOMAIN OtherVisited(side)

\* positions in the capped filmography of the popped actor of the movies whose
\* cast is fetched and contains a match
BatchMatches ==
    {k \in DOMAIN moviesToCheck :
        ~Fails("cast", moviesToCheck[k]) /\ HasMatch(moviesToCheck[k])}

\* where the movie of the expansion stands in the path that a handler builds
MoviePos == IF Len(current.path) = 0 THEN 2 ELSE Len(current.path) + 1

\* findPath returned a path found by a BFS batch
ReturnedFromBatch == Returned /\ "bfs" \in stages

C26_Determinism ==
    \A i, j \in DOMAIN hist :
        (hist[i].a = hist[j].a /\ hist[i].b = hist[j].b) =>
            hist[i].outcome = hist[j].outcome

\* C27: when findPath of the three-phase engine has computed a PathResult (same
\* actor, direct connection, or one of the three phases), the path cache holds
\* exactly that result under the pair key of its arguments, written at this
\* moment, before the caller gets it
C27_StoredBeforeReturn ==
    (Returned /\ variant = "bidir" /\ "cached" \notin stages) =>
        /\ pathKey(actor1Id, actor2Id) \in DOMAIN pathCache
        /\ pathCache[pathKey(actor1Id, actor2Id)] =
              [result |-> [path |-> outcome.path, degrees |-> outcome.degrees],
               expiresAt |-> now + PathTTL]
        /\ \/ stages = {"trivial"} /\ actor1Id = actor2Id
           \/ stages = {"direct"} /\ outcome.degrees = 1
           \/ stages = {"direct", "bfs"} /\ phase \in 1..3

\* the third phase found a path and stored it
C27_Witness ==
    /\ Returned /\ variant = "bidir" /\ phase = 3 /\ "bfs" \in stages
    /\ outcome.degrees = 11
    /\ pathCache[pathKey(actor1Id, actor2Id)].result.path = outcome.path

\* findPath ended without a result: NotFound, or an upstream error
Failed == pc = "done" /\ outcome.kind \in {"notfound", "error"}

\* the call before the current one was for the same pair, in either order, and
\* ended without a result
RetryAfterFailure ==
    /\ pc = "done" /\ hist # <<>>
    /\ pathKey(hist[Len(hist)].a, hist[Len(hist)].b) = pathKey(actor1Id, actor2Id)
    /\ hist[Len(hist)].outcome.kind \in {"notfound", "error"}

\* C28 as stated: a findPath that ends in NotFound or in an upstream error leaves
\* the path cache unchanged (so an entry that an earlier call stored for the
\* pair, which nothing else removes, is still in the cache)
C28_AsStated ==
    (Failed /\ variant = "bidir" /\ StoredForPair # {}) =>
        pathKey(actor1Id, actor2Id) \in DOMAIN pathCache

\* C28 amended: a findPath that ends in NotFound or in an upstream error writes
\* no entry: the path cache changes only by the removal of an expired entry of
\* the pair in the lookup that opens a call, and by the entry a successful call
\* stores; the step in which a call fails changes nothing; the next findPath for
\* the same pair is not served from the cache
C28_FailureWritesNothing ==
    /\ [](RetryAfterFailure => ("cached" \notin stages /\ stages # {}))
    /\ [](Failed => (pathKey(actor1Id, actor2Id) \notin DOMAIN pathCache))
    /\ [][/\ pathCache' # pathCache =>
                \/ /\ pc = "idle" /\ pc' = "endpoints"
                   /\ pathKey(actor1Id', actor2Id') \in DOMAIN pathCache
                   /\ now > pathCache[pathKey(actor1Id', actor2Id')].expiresAt
                   /\ pathCache' = Drop(pathCache, pathKey(actor1Id', actor2Id'))
                \/ /\ pc' = "done" /\ outcome'.kind = "path"
                   /\ pathCache' = SetPathResult(pathCache, actor1Id, actor2Id,
                          [path |-> outcome'.path, degrees |-> outcome'.degrees])
          /\ (pc # "done" /\ pc' = "done" /\ outcome'.kind \in {"notfound", "error"}) =>
                pathCache' = pathCache]_vars

\* findPath(2, 1) ended in an upstream error after the entry of an earlier
\* findPath(1, 2) had expired, and nothing is cached for the pair
C28_Witness ==
    /\ Failed /\ variant = "bidir" /\ outcome = UpstreamError
    /\ actor1Id = 2 /\ actor2Id = 1
    /\ StoredForPair # {}
    /\ pathKey(actor1Id, actor2Id) \notin DOMAIN pathCache

\* C29: for actor1Id # actor2Id every returned path has actor1 as its first step
\* and actor2 as its last step, whichever side found the meeting point and also
\* when the result is served from the symmetric path cache
C29_Orientation ==
    (Returned /\ variant = "bidir" /\ actor1Id # actor2Id) =>
        /\ outcome.path # <<>>
        /\ outcome.path[1].type = "actor"
        /\ outcome.path[1].id = actor1Id
        /\ outcome.path[Len(outcome.path)].type = "actor"
        /\ outcome.path[Len(outcome.path)].id = actor2Id

\* no actor occurs twice in the path
NoRepeatedActor(path) ==
    \A i, j \in ActorIdx(path) : path[i].id = path[j].id => i = j

\* C30: in the bidirectional engine the forward and the backward visited sets are
\* disjoint throughout a phase, no path kept for a visited actor or in a frontier
\* repeats an actor, and no actor occurs twice in a returned path
C30_NoRepeatedActor ==
    variant = "bidir" =>
        /\ DOMAIN visitedF \cap DOMAIN visitedB = {}
        /\ \A a \in DOMAIN visitedF : NoRepeatedActor(visitedF[a])
        /\ \A a \in DOMAIN visitedB : NoRepeatedActor(visitedB[a])
        /\ Returned => NoRepeatedActor(outcome.path)

\* a path joined at a meeting actor that is neither endpoint, with both sides
\* having visited more than their origin
C30_Witness ==
    /\ Returned /\ variant = "bidir" /\ "bfs" \in stages
    /\ outcome.degrees >= 3
    /\ Cardinality(DOMAIN visitedF) >= 2 /\ Cardinality(DOMAIN visitedB) >= 2
    /\ \E h \in Range(handlers) :
          /\ h.found /\ h.path = outcome.path
          /\ h.cast[h.k] \notin {actor1Id, actor2Id}
          /\ Len(OtherVisited(side)[h.cast[h.k]]) > 0

\* C31: with the same provider data and cold caches, findPath(A, B) and
\* findPath(B, A) of the three-phase engine either both end in NotFound or both
\* return paths with the same degrees
C31_DirectionIndependence ==
    variant = "bidir" =>
        \A i, j \in DOMAIN hist :
            (hist[i].a = hist[j].b /\ hist[i].b = hist[j].a /\ hist[i].a # hist[i].b) =>
                /\ hist[i].outcome.kind = hist[j].outcome.kind
                /\ hist[i].outcome.degrees = hist[j].outcome.degrees

\* C32: the single-direction search with depth limit maxDepth returns no path of
\* more than maxDepth degrees, and finds a target whose nearest connection is
\* exactly maxDepth degrees away inside the movie and cast caps (the iteration
\* budget is not reached on the graphs of the model)
C32_DepthLimit ==
    (variant = "single" /\ pc = "done" /\ failing = {} /\ actor1Id # actor2Id) =>
        /\ Returned => outcome.degrees <= SingleDepth
        /\ CappedHops(actor1Id, actor2Id) = SingleDepth =>
                (Returned /\ outcome.degrees = SingleDepth)

\* a step of the LRU cache that performs the operation `op`
LruStep(op) == lru'.ops = lru.ops + 1 /\ lru'.last.op = op

\* C33: the expiry of an entry of the LRU cache is fixed when it is written: a
\* get or a has leaves the timestamp of every entry it keeps as it was, and a get
\* made after the TTL counted from the last set of the key has elapsed finds
\* the entry absent
C33_AbsoluteExpiry ==
    [][/\ (LruStep("get") \/ LruStep("has")) =>
              \A k \in LruKeysOf(lru.entries) \cap LruKeysOf(lru'.entries) :
                  LruEntry(lru'.entries, k).timestamp = LruEntry(lru.entries, k).timestamp
       /\ (LruStep("get") /\ lru'.last.key \in DOMAIN lru.setAt
              /\ now - lru.setAt[lru'.last.key] > LruTtlMs) =>
              lru'.last.result = KvNull]_vars

\* the key of the Map whose last use (a get that found it, or a set) is the oldest
LruLeastRecent(c) ==
    CHOOSE k \in LruKeysOf(c.entries) :
        \A j \in LruKeysOf(c.entries) : c.lastUse[k] <= c.lastUse[j]

\* C34: the first key in the iteration order of the LRU cache's Map is the least
\* recently used entry, so a set of a new key on a full cache evicts the entry
\* whose last use is the oldest
C34_LruOrder ==
    /\ [](lru.entries # <<>> => lru.entries[1].key = LruLeastRecent(lru))
    /\ [][(LruStep("set") /\ Len(lru.entries) >= LruMaxSize
              /\ lru'.last.key \notin LruKeysOf(lru.entries)) =>
              LruLeastRecent(lru) \notin LruKeysOf(lru'.entries)]_vars

\* C35: after any sequence of get, set, has, delete, clear and cleanup the LRU
\* cache holds at most maxSize entries, each key once, and a set of a new key on
\* a full cache removes exactly one entry and adds the new one
C35_CapacityBound ==
    /\ [](/\ Len(lru.entries) <= LruMaxSize
          /\ Cardinality(LruKeysOf(lru.entries)) = Len(lru.entries))
    /\ [][(LruStep("set") /\ Len(lru.entries) = LruMaxSize
              /\ lru'.last.key \notin LruKeysOf(lru.entries)) =>
              /\ Len(lru'.entries) = LruMaxSize
              /\ Cardinality(LruKeysOf(lru.entries) \ LruKeysOf(lru'.entries)) = 1
              /\ LruKeysOf(lru'.entries) \ LruKeysOf(lru.entries) = {lru'.last.key}]_vars

\* maxSize + 1 different keys were set one after the other: the last set found
\* the cache full
C35_Witness ==
    /\ lru.last.op = "set"
    /\ lru.ops = LruMaxSize + 1
    /\ Cardinality(DOMAIN lru.setAt) = LruMaxSize + 1
    /\ Len(lru.entries) = LruMaxSize
    /\ lru.last.key \in LruKeysOf(lru.entries)

\* C36: the sweep removes exactly the entries whose expiry has passed and leaves
\* every other entry as it is, and after it get and has answer for every key
\* what they would have answered without it
C36_SweepTransparent ==
    [][(kvOps' = kvOps + 1 /\ kvLast'.op = "cleanup") =>
          /\ DOMAIN kvStore' = {k \in DOMAIN kvStore : now <= kvStore[k].expiresAt}
          /\ \A k \in DOMAIN kvStore' : kvStore'[k] = kvStore[k]
          /\ \A k \in KvKeys \cup {KvOther} :
                /\ KvGetResult(kvStore', k) = KvGetResult(kvStore, k)
                /\ KvHasResult(kvStore', k) = KvHasResult(kvStore, k)
                /\ KvAfterGet(kvStore', k) = KvAfterCleanup(KvAfterGet(kvStore, k))]_vars

\* the sweep has just removed an expired entry and kept a live one
C36_Witness ==
    /\ kvLast.op = "cleanup" /\ kvLast.at = now
    /\ DOMAIN kvLast.before \ DOMAIN kvStore # {}
    /\ kvStore # EmptyMap

\* the timer fires and a search request is issued
UiIssues == ui'.issued = ui.issued + 1

\* C37: a search request is issued only for the current input value, after it
\* stayed unchanged for 300 ms; and when no timer is pending and no request is in
\* flight (and no request failed), the list shown is the result for the current
\* input value, empty for a blank input, whatever the order of the responses
C37_Debounce ==
    /\ [][UiIssues =>
              /\ ui.timer.query = ui.inputValue
              /\ ~Blank(ui.inputValue)
              /\ now - ui.changedAt >= DebounceMs]_vars
    /\ []((~ui.timer.armed /\ ui.inflight = {} /\ ~ui.failed) =>
              ui.items = IF Blank(ui.inputValue) THEN <<>>
                         ELSE SearchResults(ui.inputValue))

====
